---- MODULE Spec2Model ----
(***************************************************************************)
(* Active Domain Randomization (pyrado/algorithms/meta/adr.py):            *)
(*   SVPGAdapter     the domain parameter search as an RL task             *)
(*   RewardGenerator the discriminator and its training loop               *)
(*   ADR.step        one outer iteration of the meta-algorithm             *)
(*                                                                         *)
(* Numbers are fixed point.  A normalized parameter is an integer in units *)
(* of 1/Scale (so [0, 1] is 0..Scale), an action component an integer in   *)
(* units of 1/ActScale (so [-1, 1] is -ActScale..ActScale), and the step   *)
(* length an integer in units of ActScale/Scale, so that the product       *)
(* clip(a, -1, 1) * step_length is an exact integer in units of 1/Scale.   *)
(***************************************************************************)
EXTENDS Integers, Sequences, FiniteSets, TLC

\* ---------------------------------------------------------------- bounds
Scale == 4              \* resolution of the normalized parameter grid
ActScale == 2           \* resolution of the action grid
MaxAct == 3             \* actions range over -MaxAct..MaxAct (beyond [-1, 1])
MaxTotalSteps == 5      \* adapter steps explored by Spec (caps horizon_count)
MaxIter == 3            \* outer iterations explored by SpecADR
MaxEpoch == 3           \* num_epoch ranges over 0..MaxEpoch in SpecTrain
MaxRollouts == 3
MaxCallSteps == 2
MaxEvalStates == 2
MaxParams == 2
MaxTrajLen == 3
MaxWeights == 3        \* sub-rollouts per population in SpecTrain

\* ------------------------------------------------------ program constants
DefaultMaxSteps == 8    \* SVPGAdapter.__init__(max_steps: int = 8)

\* --------------------------------------------------------- configuration
StepLengths == {1, -3}          \* step_length: small, and large negative
Horizons == {2, 5}              \* horizon
MaxStepsChoices == {4, DefaultMaxSteps}
NumTrajsChoices == {1, 2}       \* num_rollouts_per_config
WarmUps == {0, 1}               \* svpg_warmup
PoolOutcomes == {"ok", "AssertionError", "OtherError"}

Particles == {0, 1}              \* num_particles = 2: the least ensemble in
                                \* which one particle can be told from another
NumParticles == Cardinality(Particles)
Dims == {1}
\* the keys of the env's nominal domain parameters, and values for them in
\* units of 1/(2*Scale): minus one, one and three env units
ParamNames == {"m", "l"}
NominalValues == {-2 * Scale, 2 * Scale, 6 * Scale}                     \* one randomized parameter
RandomSample == 0..(Scale - 1)              \* np.random.random_sample: [0, 1)
RandomVectors == [Dims -> RandomSample]
InitStates == [Dims -> -1..(Scale + 1)]     \* init_state arguments of reset
Actions == [Dims -> -MaxAct..MaxAct]
NoVec == <<>>

VARIABLES
  \* SVPGAdapter
  constructed,            \* whether SVPGAdapter.__init__ returned
  pool,                   \* "pool" when self.pool is set, "unset" otherwise
  warned,                 \* whether a warning was surfaced by the constructor
  svpg_max_step_length,
  horizon,
  max_steps,
  num_trajs,
  parameters,             \* self.parameters: the randomized names, in order
  env_nominal,            \* get_nominal_domain_param() of the wrapped env
  inner_parameter_state,  \* [Particles -> [Dims -> Int]]
  count,                  \* [Particles -> Nat]
  horizon_count,
  last,                   \* the last adapter call: arguments and outcome
  \* RewardGenerator.train
  tr_pc,                  \* "idle", "loop" (inside the epoch loop), "returned"
  tr_args,                \* [ref, rand, num_epoch, logger] of the running call
  ref_gen,                \* sub-rollouts reference_batch_generator has yielded
  rand_gen,               \* sub-rollouts random_batch_generator has yielded
  epoch,                  \* epochs completed
  pairs,                  \* the (reference, randomized) pairs processed
  opt_steps,              \* calls of self.optimizer.step()
  loss,                   \* the local variable loss
  logged,                 \* values given to self.logger.add_value
  tr_ret,                 \* the value returned
  tr_raised,              \* whether the call raised
  weights,                \* optimizer steps applied to the discriminator so far
  \* ADR
  warm_up_time,
  num_discriminator_epoch,
  curr_time_step,
  adr_pc,                 \* position inside ADR.step ("idle" between calls)
  cur_i,                  \* the loop variable i over svpg.iter_particles
  done,
  states,                 \* the list `states` of the particle being processed
  rand_trajs_now,
  rand_trajs,
  ref_trajs,
  ros,
  seen,                   \* the weights when ADR.step began, and those its rewards used
  calls,                  \* calls made to collaborators in the current ADR.step
  rerand_at,              \* per particle: the step numbers at which step() re-drew it
  \* ADR construction and snapshots
  ctor_args,              \* the kinds of env, subrtn and subrtn.policy given
  ctor_state,             \* "new", "constructed" or "raised"
  effects,                \* side effects of ADR.__init__, in order
  snap,                   \* the last ADR.save_snapshot call and what it did
  \* observed calls
  sampled,                \* param_norm and the dictionary lists built by the last step
  reward_call,            \* the last preprocess_rollout / get_reward call
  \* ADR.step, the values it handles for each particle
  returned,               \* the value of `state` when each adapter step returned
  state_dicts,            \* the state_dict computed after each adapter step
  observations,           \* the observations of the StepSequence put into ros
  \* SVPGAdapter.step, statement by statement, with the jobs of the pool
  st_pc,                  \* "idle", "rand", "ref" (inside eval_domain_params), "score"
  st_args,                \* the particle and the action of the running step
  rand_jobs,              \* the rollouts of random_parameters: "queued", "running", "done"
  ref_jobs,               \* the rollouts of nominal_parameters
  scored,                 \* the rewards computed so far
  \* the Barrett WAM ball-in-cup environments
  episodic,               \* a WAMBallInCupRealEpisodic and its control process
  stepbased,              \* a WAMBallInCupRealStepBased
  wam_ret                 \* what the last reset or step of either returned

adapterCfg == <<constructed, pool, warned, svpg_max_step_length, horizon, max_steps,
                num_trajs, parameters, env_nominal>>
adapterState == <<inner_parameter_state, count, horizon_count>>
adapterVars == <<adapterCfg, adapterState, last>>

trainCall == <<tr_pc, tr_args, ref_gen, rand_gen, epoch, pairs, opt_steps, loss,
               logged, tr_ret, tr_raised>>
trainVars == <<trainCall, weights>>
lifeVars == <<ctor_args, ctor_state, effects, snap>>
observedVars == <<sampled, reward_call>>
recVars == <<returned, state_dicts, observations>>
poolVars == <<st_pc, st_args, rand_jobs, ref_jobs, scored>>
wamVars == <<episodic, stepbased, wam_ret>>
auxVars == <<recVars, poolVars, wamVars>>
\* everything ADR.step leaves alone
adrCfg == <<warm_up_time, num_discriminator_epoch, lifeVars, observedVars, auxVars>>
adrLocals == <<cur_i, done, states, rand_trajs_now, rand_trajs, ref_trajs, ros, seen>>
adrVars == <<adrCfg, curr_time_step, adr_pc, adrLocals, calls, rerand_at>>

vars == <<adapterVars, trainVars, adrVars>>

\* ------------------------------------------------------------ SVPGAdapter

\* np.clip(act, -1, 1), one component
ClipAction_NoClip(a) == a
ClipAction(a) ==
  IF a < -ActScale THEN -ActScale ELSE IF a > ActScale THEN ActScale ELSE a

\* np.clip(x, 0, 1), one component
Clip01_NoClip(x) == x
Clip01(x) == IF x < 0 THEN 0 ELSE IF x > Scale THEN Scale ELSE x

\* np.clip(self.inner_parameter_state[i] + action, 0, 1) with
\* action = np.clip(act, -1, 1) * self.svpg_max_step_length.
\* v is in units of 1/Scale and ClipAction(a) * sl is too.
MoveState(v, act, sl) ==
  [k \in Dims |-> Clip01(v[k] + ClipAction(act[k]) * sl)]

\* random_parameters = [self.array_to_dict(param_norm * self.nominal())] * self.num_trajs
RandomParameters(n) == [j \in 1..n |-> "random"]

\* nominal_parameters = [self.nominal_dict()] * self.num_trajs
NominalParameters_One(n) == <<"nominal">>
NominalParameters(n) == [j \in 1..n |-> "nominal"]

\* eval_domain_params(pool, env, policy, params) in step t of particle i:
\* one rollout per parameter dictionary, in input order
EvalDomainParams(i, t, params) ==
  [j \in 1..Len(params) |-> [cfg |-> params[j], particle |-> i, t |-> t, j |-> j]]

NoInfo == [rand |-> <<>>, ref |-> <<>>]

Call(op, i, act, draw, ret, d, raised, info) ==
  [op |-> op, i |-> i, act |-> act, draw |-> draw, ret |-> ret, done |-> d,
   raised |-> raised, info |-> info, domain_param |-> FALSE]

\* the argument i = None
NoIndex == -1

\* if init_state is None: np.random.random_sample(...) else: init_state
ResetVector_IgnoreInit(init_state, draw) == draw
ResetVector(init_state, draw) == IF init_state = NoVec THEN draw ELSE init_state

\* SVPGAdapter.reset(i, init_state) with i is not None, domain_param is None
AdapterReset_All(i, init_state, draw) ==
  /\ count' = [p \in Particles |-> 0]
  /\ inner_parameter_state' =
       [inner_parameter_state EXCEPT ![i] = IF init_state = NoVec THEN draw ELSE init_state]
  /\ last' = [op |-> "reset", i |-> i, act |-> init_state,
              draw |-> IF init_state = NoVec THEN draw ELSE NoVec,
              ret |-> inner_parameter_state'[i], done |-> FALSE, raised |-> FALSE,
              info |-> [rand |-> <<>>, ref |-> <<>>], domain_param |-> FALSE]
  /\ UNCHANGED <<adapterCfg, horizon_count>>
AdapterReset(i, init_state, draw) ==
  /\ count' = [count EXCEPT ![i] = 0]
  /\ inner_parameter_state' =
       [inner_parameter_state EXCEPT
          ![i] = ResetVector(init_state, draw)]
  /\ last' = Call("reset", i, init_state, IF init_state = NoVec THEN draw ELSE NoVec,
                  inner_parameter_state'[i], FALSE, FALSE, NoInfo)
  /\ UNCHANGED <<adapterCfg, horizon_count>>

\* SVPGAdapter.reset(None, init_state): all particles; init_state is the
\* whole matrix, draws is the matrix np.random.random_sample returns
AdapterResetAll(init_matrix, draws) ==
  /\ count' = [p \in Particles |-> 0]
  /\ inner_parameter_state' = ResetVector(init_matrix, draws)
  /\ last' = Call("reset_all", NoIndex, init_matrix,
                  IF init_matrix = NoVec THEN draws ELSE NoVec,
                  inner_parameter_state', FALSE, FALSE, NoInfo)
  /\ UNCHANGED <<adapterCfg, horizon_count>>

\* done = self.count[i] >= self.max_steps - 1, read before the increment
StepDone_Late(c, ms) == c >= ms
StepDone_Never(c, ms) == FALSE
StepDone(c, ms) == c >= ms - 1

\* if self.count[i] % self.horizon == 0, read after the increment
Rerandomize_BeforeIncrement(c, h) == (c - 1) % h = 0
Rerandomize(c, h) == c % h = 0

\* SVPGAdapter.step(act, i) with i is not None.  The move of the particle
\* is stored before the rollouts are sampled; sampling reads self.pool,
\* which raises AttributeError when the constructor did not set it.
AdapterStep(act, i, draw) ==
  LET moved == MoveState(inner_parameter_state[i], act, svpg_max_step_length)
      c == count[i] + 1
  IN IF pool = "unset"
     THEN /\ inner_parameter_state' = [inner_parameter_state EXCEPT ![i] = moved]
          /\ last' = Call("step", i, act, NoVec, NoVec, FALSE, TRUE, NoInfo)
          /\ UNCHANGED <<adapterCfg, count, horizon_count>>
     ELSE /\ count' = [count EXCEPT ![i] = c]
          /\ horizon_count' = horizon_count + 1
          /\ inner_parameter_state' =
               [inner_parameter_state EXCEPT
                  ![i] = IF Rerandomize(c, horizon) THEN draw ELSE moved]
          /\ last' = Call("step", i, act,
                          IF Rerandomize(c, horizon) THEN draw ELSE NoVec,
                          inner_parameter_state'[i],
                          StepDone(count[i], max_steps), FALSE,
                          [rand |-> EvalDomainParams(i, count[i], RandomParameters(num_trajs)),
                           ref |-> EvalDomainParams(i, count[i], NominalParameters(num_trajs))])
          /\ UNCHANGED adapterCfg

\* SVPGAdapter.__init__: the pool, the fields, and the closing self.reset().
\* SamplerPool may raise; only an AssertionError is caught, and the handler
\* builds a Warning object without raising or issuing it.
PoolAfterInit(outcome) == IF outcome = "ok" THEN "pool" ELSE "unset"
WarnedAfterInit(outcome) == FALSE
ConstructedAfterInit(outcome) == outcome # "OtherError"

AdapterInit(outcome, sl, h, ms, n, draws) ==
  /\ constructed = ConstructedAfterInit(outcome)
  /\ pool = PoolAfterInit(outcome)
  /\ warned = WarnedAfterInit(outcome)
  /\ svpg_max_step_length = sl
  /\ horizon = h
  /\ max_steps = ms
  /\ num_trajs = n
  /\ inner_parameter_state = draws
  /\ count = [p \in Particles |-> 0]
  /\ horizon_count = 0
  /\ last = Call("init", NoIndex, NoVec, NoVec, NoVec, FALSE, outcome = "OtherError", NoInfo)

\* assert domain_param is None: fails exactly when a domain_param is given
ResetAsserts_Never(domain_param) == FALSE
ResetAsserts(domain_param) == domain_param

\* SVPGAdapter.reset(i, init_state, domain_param) with every argument as
\* given: i is a particle or NoIndex, init_state a vector (a matrix when
\* i is NoIndex) or NoVec, domain_param whether a dictionary was passed
AdapterResetWith(i, init_state, domain_param, draw) ==
  LET rec(ret, raised) ==
        [Call(IF i = NoIndex THEN "reset_all" ELSE "reset", i, init_state,
              IF init_state = NoVec /\ ~raised THEN draw ELSE NoVec,
              ret, FALSE, raised, NoInfo) EXCEPT !.domain_param = domain_param]
  IN IF ResetAsserts(domain_param)
     THEN /\ last' = rec(NoVec, TRUE)
          /\ UNCHANGED <<adapterCfg, adapterState>>
     ELSE /\ count' = IF i = NoIndex THEN [p \in Particles |-> 0]
                                     ELSE [count EXCEPT ![i] = 0]
          /\ inner_parameter_state' =
               IF i = NoIndex THEN ResetVector(init_state, draw)
               ELSE [inner_parameter_state EXCEPT ![i] = ResetVector(init_state, draw)]
          /\ last' = rec(IF i = NoIndex THEN inner_parameter_state'
                                        ELSE inner_parameter_state'[i], FALSE)
          /\ UNCHANGED <<adapterCfg, horizon_count>>

\* SVPGAdapter.step(act, None): the body of `if i is not None` is skipped
\* and the function ends in raise NotImplementedError
AdapterStepNone_FirstParticle(act) ==
  LET p == CHOOSE q \in Particles : \A r \in Particles : q <= r
  IN /\ inner_parameter_state' =
          [inner_parameter_state EXCEPT
             ![p] = MoveState(inner_parameter_state[p], act, svpg_max_step_length)]
     /\ count' = [count EXCEPT ![p] = count[p] + 1]
     /\ horizon_count' = horizon_count + 1
     /\ last' = Call("step", NoIndex, act, NoVec, inner_parameter_state'[p], FALSE, FALSE,
                     NoInfo)
     /\ UNCHANGED adapterCfg
AdapterStepNone(act) ==
  /\ last' = Call("step", NoIndex, act, NoVec, NoVec, FALSE, TRUE, NoInfo)
  /\ UNCHANGED <<adapterCfg, adapterState>>

\* ------------------------------------------------- parameter dictionaries
\* A DomainParam is [name, dim]; a dictionary is a function on its keys.
\* Physical values are integers in units of 1/(2*Scale) of the env's unit,
\* which makes (state + 0.5) * nominal exact.

\* DomainParam(param, 1)
DomainParam(name) == [name |-> name, dim |-> 1]

\* params(): [param.name for param in self.parameters]
Params(ps) == [j \in 1..Len(ps) |-> ps[j].name]

\* nominal(): [env.get_nominal_domain_param()[k] for k in self.params()]
Nominal_Reversed(ps, env) == [j \in 1..Len(ps) |-> env[Params(ps)[Len(ps) + 1 - j]]]
Nominal(ps, env) == [j \in 1..Len(ps) |-> env[Params(ps)[j]]]

\* nominal_dict(): {k: env.get_nominal_domain_param()[k] for k in self.params()}
NominalDict(ps, env) == [k \in {Params(ps)[j] : j \in 1..Len(ps)} |-> env[k]]

\* array_to_dict(arr): {k: a for k, a in zip(self.params(), arr)}; zip stops
\* at the shorter argument and a repeated key keeps its last value
ArrayToDict(ps, arr) ==
  LET n == IF Len(ps) < Len(arr) THEN Len(ps) ELSE Len(arr)
      lastAt(k) == CHOOSE j \in 1..n :
                     /\ Params(ps)[j] = k
                     /\ \A m \in 1..n : Params(ps)[m] = k => m <= j
  IN [k \in {Params(ps)[j] : j \in 1..n} |-> arr[lastAt(k)]]

\* param_norm = self.inner_parameter_state[i] + 0.5, in units of 1/(2*Scale)
ParamNorm_NoOffset(v) == [k \in DOMAIN v |-> 2 * v[k]]
ParamNorm(v) == [k \in DOMAIN v |-> 2 * v[k] + Scale]

\* param_norm * self.nominal(): element by element
TimesNominal(pn, nom) == [k \in DOMAIN pn |-> (pn[k] * nom[k]) \div (2 * Scale)]

\* self.array_to_dict(param_norm * self.nominal()) and self.nominal_dict(),
\* each repeated num_trajs times
RandomParameterDicts(v, n, ps, env) ==
  [j \in 1..n |-> ArrayToDict(ps, TimesNominal(ParamNorm(v), Nominal(ps, env)))]
NominalParameterDicts(n, ps, env) == [j \in 1..n |-> NominalDict(ps, env)]

NoSample == [moved |-> NoVec, rand |-> <<>>, ref |-> <<>>]

\* SVPGAdapter.step(act, i) together with the values of its locals
\* param_norm - 0.5, random_parameters and nominal_parameters
AdapterStepTraced(act, i, draw) ==
  LET moved == MoveState(inner_parameter_state[i], act, svpg_max_step_length)
  IN /\ AdapterStep(act, i, draw)
     /\ sampled' = [moved |-> moved,
                    rand |-> RandomParameterDicts(moved, num_trajs, parameters, env_nominal),
                    ref |-> NominalParameterDicts(num_trajs, parameters, env_nominal)]

\* discriminator.get_reward(traj): a value determined by the trajectory
RewardOf(traj) == [reward_of |-> traj]

\* np.mean(rewards): a value determined by the rewards averaged
Mean(rewards) == [mean_of |-> rewards]

\* seq[a:b] for 0 <= a <= b: the slice stops at the end of seq
PySlice(seq, a, b) ==
  LET lo == IF a < Len(seq) THEN a ELSE Len(seq)
      hi == IF b < Len(seq) THEN b ELSE Len(seq)
  IN [m \in 1..(hi - lo) |-> seq[lo + m]]

\* rewards[i * self.num_trajs : (i + 1) * self.num_trajs]
RewardSlice_Stride1(rewards, i, n) == PySlice(rewards, i, i + n)
RewardSlice(rewards, i, n) == PySlice(rewards, i * n, (i + 1) * n)

\* SVPGAdapter.eval_states(states): reads self.pool, which raises
\* AttributeError when the constructor did not set it
AdapterEvalStates(sts) ==
  LET n == num_trajs
      dict(state) == ArrayToDict(parameters,
                       TimesNominal(ParamNorm(state), Nominal(parameters, env_nominal)))
  IN /\ \E sstates \in {[k \in 1..(Len(sts) * n) |-> dict(sts[((k - 1) \div n) + 1])]} :
        \E rand \in {EvalDomainParams(NoIndex, NoIndex, sstates)} :
        \E ref \in {EvalDomainParams(NoIndex, NoIndex,
                       NominalParameterDicts(n * Len(sts), parameters, env_nominal))} :
        \E rewards \in {[k \in 1..Len(rand) |-> RewardOf(rand[k])]} :
        \E means \in {[j \in 1..Len(sts) |-> Mean(RewardSlice(rewards, j - 1, n))]} :
          last' = IF pool = "unset"
                  THEN Call("eval_states", NoIndex, sts, NoVec, NoVec, FALSE, TRUE, NoInfo)
                  ELSE Call("eval_states", NoIndex, sts, NoVec, means, FALSE, FALSE,
                            [rand |-> rand, ref |-> ref])
     /\ UNCHANGED <<adapterCfg, adapterState>>

\* -------------------------------------------------------- RewardGenerator

NoneLoss == [kind |-> "None", epoch |-> 0, pair |-> 0]
UnboundLoss == [kind |-> "unbound", epoch |-> 0, pair |-> 0]
\* the loss computed from the pair-th pair of an epoch
LossOf(e, k) == [kind |-> "value", epoch |-> e, pair |-> k]

\* loss = None, before the epoch loop
TrainInitLoss_Unbound == UnboundLoss
TrainInitLoss == NoneLoss

\* StepSequence.iterate_rollouts(): a generator over the sub-rollouts, here
\* the number it has yielded so far
IterateRollouts == 0

\* self.logger.add_value(key, value)
LoggerAddValue(log, key, value) == Append(log, [key |-> key, value |-> value])

\* isinstance(rollout, StepSequence)
IsStepSequence_Any(rollout) == TRUE
IsStepSequence(rollout) == rollout.type = "StepSequence"

\* preprocess_rollout(rollout): the type check, then rollout.torch(...),
\* which is the first use of the argument, then the rows
\* (observations[t], actions[t]) for every t but the last observation
PreprocessRollout(rollout) ==
  IF ~IsStepSequence(rollout)
  THEN [raised |-> "TypeErr", touched |-> FALSE, ret |-> <<>>]
  ELSE IF rollout.type # "StepSequence"
  THEN [raised |-> "AttributeError", touched |-> TRUE, ret |-> <<>>]
  ELSE [raised |-> "none", touched |-> TRUE,
        ret |-> [t \in 1..(Len(rollout.observations) - 1) |->
                   <<rollout.observations[t], rollout.actions[t]>>]]

RewardCall(fn, arg, raised, touched, forward, ret) ==
  [fn |-> fn, arg |-> arg, raised |-> raised, touched |-> touched,
   forward |-> forward, ret |-> ret]

NoRewardCall == RewardCall("none", <<>>, "none", FALSE, 0, <<>>)

\* the call preprocess_rollout(rollout) as seen by its caller
PreprocessRolloutCall(rollout) ==
  LET pre == PreprocessRollout(rollout)
  IN reward_call' = RewardCall("preprocess_rollout", rollout, pre.raised, pre.touched,
                               0, pre.ret)

\* the weights after get_reward ran on weights w: a forward pass under
\* no_grad, no backward and no optimizer step
WeightsAfterGetReward_Trains(w) == w + 1
WeightsAfterGetReward(w) == w

\* the weights after n rewards were computed one after the other
RECURSIVE WeightsAfterRewards(_, _)
WeightsAfterRewards(w, n) ==
  IF n = 0 THEN w ELSE WeightsAfterGetReward(WeightsAfterRewards(w, n - 1))

\* RewardGenerator.get_reward(traj): preprocess_rollout first, then one
\* forward pass of the discriminator under no_grad
GetReward(traj) ==
  LET pre == PreprocessRollout(traj)
  IN /\ reward_call' =
          IF pre.raised # "none"
          THEN RewardCall("get_reward", traj, pre.raised, pre.touched, 0, <<>>)
          ELSE RewardCall("get_reward", traj, "none", pre.touched, 1, RewardOf(pre.ret))
     /\ weights' = IF pre.raised # "none" THEN weights ELSE WeightsAfterGetReward(weights)

TrainIdle ==
  /\ tr_pc = "idle"
  /\ tr_args = [ref |-> 0, rand |-> 0, num_epoch |-> 0, logger |-> FALSE]
  /\ ref_gen = 0
  /\ rand_gen = 0
  /\ epoch = 0
  /\ pairs = <<>>
  /\ opt_steps = 0
  /\ loss = UnboundLoss
  /\ logged = <<>>
  /\ tr_ret = UnboundLoss
  /\ tr_raised = FALSE
  /\ weights = 0

\* RewardGenerator.train is entered with R reference and S randomized
\* sub-rollouts: both generators are created here, once, and loss is set
TrainEnter(R, S, E, logger) ==
  /\ tr_pc \in {"idle", "returned"}
  /\ tr_pc' = "loop"
  /\ tr_args' = [ref |-> R, rand |-> S, num_epoch |-> E, logger |-> logger]
  /\ ref_gen' = IterateRollouts
  /\ rand_gen' = IterateRollouts
  /\ epoch' = 0
  /\ pairs' = <<>>
  /\ opt_steps' = 0
  /\ loss' = TrainInitLoss
  /\ logged' = <<>>
  /\ tr_ret' = UnboundLoss
  /\ tr_raised' = FALSE
  /\ UNCHANGED weights

\* whether zip(reference_batch_generator, random_batch_generator) yields
\* another pair: both generators have a sub-rollout left
ZipHasNext(rg, sg, R, S) == rg < R /\ sg < S

\* one pass of the inner loop body: forward, loss, backward, optimizer.step()
TrainPairBody ==
  /\ tr_pc = "loop"
  /\ epoch < tr_args.num_epoch
  /\ ZipHasNext(ref_gen, rand_gen, tr_args.ref, tr_args.rand)
  /\ ref_gen' = ref_gen + 1
  /\ rand_gen' = rand_gen + 1
  /\ pairs' = Append(pairs, [epoch |-> epoch, ref |-> ref_gen + 1, rand |-> rand_gen + 1])
  /\ opt_steps' = opt_steps + 1
  /\ weights' = weights + 1
  /\ loss' = LossOf(epoch, ref_gen + 1)
  /\ UNCHANGED <<tr_pc, tr_args, epoch, logged, tr_ret, tr_raised>>

\* zip stops: it asks the reference generator first, and an element it got
\* from it is dropped when the randomized generator has none left
TrainEpochEndBody ==
  /\ tr_pc = "loop"
  /\ epoch < tr_args.num_epoch
  /\ ~ZipHasNext(ref_gen, rand_gen, tr_args.ref, tr_args.rand)
  /\ ref_gen' = IF ref_gen < tr_args.ref THEN ref_gen + 1 ELSE ref_gen
  /\ epoch' = epoch + 1
  /\ UNCHANGED <<tr_pc, tr_args, rand_gen, pairs, opt_steps, loss, logged, tr_ret, tr_raised,
                 weights>>

\* after the epoch loop: report the loss if a logger is attached, return it.
\* Reading a local that was never bound raises.
TrainReturnBody ==
  /\ tr_pc = "loop"
  /\ epoch >= tr_args.num_epoch
  /\ tr_pc' = "returned"
  /\ IF loss.kind = "unbound"
     THEN /\ tr_raised' = TRUE
          /\ UNCHANGED <<logged, tr_ret>>
     ELSE /\ tr_raised' = FALSE
          /\ logged' = IF tr_args.logger
                       THEN LoggerAddValue(logged, "discriminator_loss", loss)
                       ELSE logged
          /\ tr_ret' = loss
  /\ UNCHANGED <<tr_args, ref_gen, rand_gen, epoch, pairs, opt_steps, loss, weights>>

\* -------------------------------------------------------------------- ADR

\* StepSequence(observations=states, actions=actions, rewards=rewards) of
\* particle i in outer iteration t
StepSequence(i, t, obs) == [particle |-> i, iter |-> t, length |-> Len(obs)]

\* if self.curr_time_step > self.warm_up_time
SvpgGate_AtLeast(t, w) == t >= w
SvpgGate(t, w) == t > w

\* list(map(lambda x: [x], ros))
WrapEach(rs) == [k \in 1..Len(rs) |-> <<rs[k]>>]

CallRec(fn, arg) == [fn |-> fn, arg |-> arg]
CallsOf(fn) == SelectSeq(calls, LAMBDA c : c.fn = fn)

\* self._subrtn.update(rand_trajs_now): the list of this particle, not the
\* list rand_trajs of the whole iteration
UpdateArg_All(now, all) == all
UpdateArg(now, all) == now

\* ret_avg = np.mean([ro.undiscounted_return() for ro in rand_trajs])
RetAvg(trajs) == Mean([k \in 1..Len(trajs) |-> [return_of |-> trajs[k]]])

\* self.make_snapshot(snapshot_mode, float(ret_avg), meta_info), then
\* self._subrtn.make_snapshot(snapshot_mode="best", curr_avg_ret=float(ret_avg))
SnapshotCalls_BestFirst(r) ==
  <<CallRec("subrtn.make_snapshot", [snapshot_mode |-> "best", curr_avg_ret |-> r]),
    CallRec("make_snapshot", [snapshot_mode |-> "given", curr_avg_ret |-> r])>>
SnapshotCalls(r) ==
  <<CallRec("make_snapshot", [snapshot_mode |-> "given", curr_avg_ret |-> r]),
    CallRec("subrtn.make_snapshot", [snapshot_mode |-> "best", curr_avg_ret |-> r])>>

AdrIdle ==
  /\ curr_time_step = 0
  /\ adr_pc = "idle"
  /\ cur_i = 0
  /\ done = FALSE
  /\ states = <<>>
  /\ rand_trajs_now = <<>>
  /\ rand_trajs = <<>>
  /\ ref_trajs = <<>>
  /\ ros = <<>>
  /\ calls = <<>>
  /\ rerand_at = [p \in Particles |-> <<>>]
  /\ seen = [begin |-> 0, used |-> {}]

\* ADR.step is entered: rand_trajs = [], ref_trajs = [], ros = []
AdrBegin ==
  /\ adr_pc = "idle"
  /\ curr_time_step < MaxIter
  /\ adr_pc' = "reset"
  /\ cur_i' = 0
  /\ done' = FALSE
  /\ states' = <<>>
  /\ rand_trajs_now' = <<>>
  /\ rand_trajs' = <<>>
  /\ ref_trajs' = <<>>
  /\ ros' = <<>>
  /\ calls' = <<>>
  /\ rerand_at' = [p \in Particles |-> <<>>]
  /\ seen' = [begin |-> weights, used |-> {}]
  /\ UNCHANGED <<adapterVars, trainVars, adrCfg, curr_time_step>>

\* the head of the particle loop: done = False, state = svpg_env.reset(i),
\* the per-particle lists are emptied
AdrResetParticle ==
  /\ adr_pc = "reset"
  /\ \E draw \in RandomVectors : AdapterReset(cur_i, NoVec, draw)
  /\ done' = FALSE
  /\ states' = <<>>
  /\ rand_trajs_now' = <<>>
  /\ adr_pc' = "loop"
  /\ calls' = Append(calls, CallRec("svpg_env.reset", cur_i))
  /\ UNCHANGED <<trainVars, adrCfg, curr_time_step, cur_i, rand_trajs, ref_trajs, ros,
                 rerand_at, seen>>

\* one pass of `while not done`: the action of the particle's exploration
\* strategy, the adapter step, and the bookkeeping of its results
SvpgEnvStep(traced, act, i, draw) ==
  IF traced THEN AdapterStepTraced(act, i, draw) ELSE AdapterStep(act, i, draw)

AdrCollectWith(traced, acts) ==
  /\ adr_pc = "loop"
  /\ ~done
  /\ \E act \in acts :
       IF Rerandomize(count[cur_i] + 1, horizon)
       THEN \E draw \in RandomVectors : SvpgEnvStep(traced, act, cur_i, draw)
       ELSE SvpgEnvStep(traced, act, cur_i, NoVec)
  /\ done' = last'.done
  /\ states' = Append(states, cur_i)
  /\ rand_trajs_now' = rand_trajs_now \o last'.info.rand
  /\ rand_trajs' = rand_trajs \o last'.info.rand
  /\ ref_trajs' = ref_trajs \o last'.info.ref
  /\ rerand_at' = IF last'.draw # NoVec
                  THEN [rerand_at EXCEPT ![cur_i] = Append(@, count'[cur_i])]
                  ELSE rerand_at
  /\ calls' = Append(calls, CallRec("svpg_env.step", cur_i))
  /\ seen' = [seen EXCEPT !.used = @ \cup {WeightsAfterRewards(weights, k) :
                                             k \in 0..(Len(last'.info.rand) - 1)}]
  /\ weights' = WeightsAfterRewards(weights, Len(last'.info.rand))
  /\ UNCHANGED <<trainCall, warm_up_time, num_discriminator_epoch, lifeVars, reward_call,
                 curr_time_step, adr_pc, cur_i, ros>>

AdrCollect ==
  /\ AdrCollectWith(FALSE, Actions)
  /\ UNCHANGED <<sampled, auxVars>>

\* state_dict = svpg_env.array_to_dict((state + 0.5) * svpg_env.nominal())
StateDict(state, ps, env) == ArrayToDict(ps, TimesNominal(ParamNorm(state), Nominal(ps, env)))

\* the same pass, keeping the value of `state` as the step returned it and
\* the state_dict made of it
AdrCollectRecorded(acts) ==
  /\ AdrCollectWith(TRUE, acts)
  /\ returned' = [returned EXCEPT ![cur_i] = Append(@, last'.ret)]
  /\ state_dicts' = [state_dicts EXCEPT
                       ![cur_i] = Append(@, StateDict(last'.ret, parameters, env_nominal))]
  /\ UNCHANGED <<observations, poolVars, wamVars>>

\* the loop of particle i has ended: its rollout is appended to ros and its
\* randomized rollouts are given to the subroutine; then the next particle,
\* or, after the last one, the discriminator
AdrParticleEndBody ==
  /\ adr_pc = "loop"
  /\ done
  /\ ros' = Append(ros, StepSequence(cur_i, curr_time_step, states))
  /\ calls' = Append(calls, CallRec("subrtn.update", UpdateArg(rand_trajs_now, rand_trajs)))
  /\ IF cur_i + 1 < NumParticles
     THEN cur_i' = cur_i + 1 /\ adr_pc' = "reset"
     ELSE cur_i' = cur_i /\ adr_pc' = "train"
  /\ UNCHANGED <<adapterVars, trainVars, warm_up_time, num_discriminator_epoch, lifeVars,
                 observedVars, curr_time_step, done, states, seen,
                 rand_trajs_now, rand_trajs, ref_trajs, rerand_at>>

AdrParticleEnd ==
  /\ AdrParticleEndBody
  /\ UNCHANGED auxVars

\* observations=states: every entry of the list is the array svpg_env.step
\* (or reset) returned, self.inner_parameter_state[i], a view of row i of the
\* adapter's matrix; the StepSequence reads the entries when it is built
Observations(sts, matrix) == [k \in 1..Len(sts) |-> matrix[sts[k]]]

\* the same, keeping the observations of the StepSequence
AdrParticleEndRecorded ==
  /\ AdrParticleEndBody
  /\ observations' = Append(observations,
                            Observations(states, inner_parameter_state))
  /\ UNCHANGED <<returned, state_dicts, poolVars, wamVars>>

\* self.reward_generator.train(flattened_reference, flattened_randomized,
\* self.num_discriminator_epoch); ADR's reward generator has a logger
AdrTrain ==
  /\ adr_pc = "train"
  /\ TrainEnter(Len(ref_trajs), Len(rand_trajs), num_discriminator_epoch, TRUE)
  /\ calls' = Append(calls, CallRec("reward_generator.train",
                                    [ref |-> ref_trajs, rand |-> rand_trajs]))
  /\ adr_pc' = "training"
  /\ UNCHANGED <<adapterVars, adrCfg, curr_time_step, adrLocals, rerand_at>>

\* pyrado.save(self.reward_generator.discriminator, "discriminator.pt", ...)
AdrSaveDiscriminator ==
  /\ adr_pc = "training"
  /\ tr_pc = "returned"
  /\ ~tr_raised
  /\ calls' = Append(calls, CallRec("save_discriminator", curr_time_step))
  /\ adr_pc' = "svpg"
  /\ UNCHANGED <<adapterVars, trainVars, adrCfg, curr_time_step, adrLocals, rerand_at>>

\* the gated update of the particles
AdrSvpgUpdate ==
  /\ adr_pc = "svpg"
  /\ calls' = IF SvpgGate(curr_time_step, warm_up_time)
              THEN Append(calls, CallRec("svpg.update", WrapEach(ros)))
              ELSE calls
  /\ adr_pc' = "snapshot"
  /\ UNCHANGED <<adapterVars, trainVars, adrCfg, curr_time_step, adrLocals, rerand_at>>

\* make_snapshot, the subroutine's make_snapshot, self.curr_time_step += 1
AdrSnapshot ==
  /\ adr_pc = "snapshot"
  /\ calls' = calls \o SnapshotCalls(RetAvg(rand_trajs))
  /\ curr_time_step' = curr_time_step + 1
  /\ adr_pc' = "idle"
  /\ UNCHANGED <<adapterVars, trainVars, adrCfg, adrLocals, rerand_at>>

\* -------------------------------------- ADR.__init__ and ADR.save_snapshot

CtorKinds ==
  [env : {"Env", "other"}, subrtn : {"Algorithm", "other"}, policy : {"Policy", "other"}]

ValidArgs == [env |-> "Env", subrtn |-> "Algorithm", policy |-> "Policy"]

\* the three isinstance checks, in order; subrtn.policy is read only when
\* subrtn is an Algorithm
ArgsError_NoPolicyCheck(args) ==
  IF args.env # "Env" THEN "env"
  ELSE IF args.subrtn # "Algorithm" THEN "subrtn"
  ELSE "none"
ArgsError(args) ==
  IF args.env # "Env" THEN "env"
  ELSE IF args.subrtn # "Algorithm" THEN "subrtn"
  ELSE IF args.policy # "Policy" THEN "policy"
  ELSE "none"

\* what the constructor does after the checks, up to the adapter
CtorEffectsBeforeAdapter ==
  <<"Algorithm.__init__", "self.log_loss", "self.env", "self._subrtn",
    "subrtn.save_name", "self.num_discriminator_epoch", "self.batch_size",
    "self.num_trajs_per_config", "self.warm_up_time", "self.log_exploration",
    "self.curr_time_step", "self.params", "self.num_params",
    "self.reward_generator", "self.sim_instances_full_horizon">>

\* and from the adapter on
CtorEffectsFromAdapter == <<"self.svpg_wrapper", "self.svpg">>

NoSnap == [called |-> FALSE, meta_info |-> "None", raised |-> FALSE, did |-> <<>>]

AdapterAbsent ==
  /\ constructed = FALSE
  /\ pool = "unset"
  /\ warned = FALSE
  /\ svpg_max_step_length = 0
  /\ horizon = 0
  /\ max_steps = 0
  /\ num_trajs = 0
  /\ inner_parameter_state = [p \in Particles |-> [k \in Dims |-> 0]]
  /\ count = [p \in Particles |-> 0]
  /\ horizon_count = 0
  /\ last = Call("none", NoIndex, NoVec, NoVec, NoVec, FALSE, FALSE, NoInfo)

\* ADR.__init__(env, subrtn, ...): outcome is what SamplerPool(num_workers)
\* does inside the adapter's constructor, draws what its closing reset() draws
AdrConstruct(outcome, sl, h, n, w, E, draws) ==
  /\ ctor_state = "new"
  /\ IF ArgsError(ctor_args) # "none"
     THEN /\ ctor_state' = "raised"
          /\ UNCHANGED <<effects, adapterVars, warm_up_time, num_discriminator_epoch,
                         curr_time_step>>
     ELSE /\ warm_up_time' = w
          /\ num_discriminator_epoch' = E
          /\ curr_time_step' = 0
          /\ constructed' = ConstructedAfterInit(outcome)
          /\ pool' = PoolAfterInit(outcome)
          /\ warned' = WarnedAfterInit(outcome)
          /\ IF ConstructedAfterInit(outcome)
             THEN /\ svpg_max_step_length' = sl
                  /\ horizon' = h
                  /\ max_steps' = DefaultMaxSteps
                  /\ num_trajs' = n
                  /\ inner_parameter_state' = draws
                  /\ last' = Call("init", NoIndex, NoVec, NoVec, NoVec, FALSE, FALSE, NoInfo)
                  /\ ctor_state' = "constructed"
                  /\ effects' = CtorEffectsBeforeAdapter \o CtorEffectsFromAdapter
             ELSE /\ ctor_state' = "raised"
                  /\ effects' = CtorEffectsBeforeAdapter
                  /\ UNCHANGED <<svpg_max_step_length, horizon, max_steps, num_trajs,
                                 inner_parameter_state, last>>
          /\ UNCHANGED <<parameters, env_nominal, count, horizon_count>>
  /\ UNCHANGED <<trainVars, ctor_args, snap, observedVars, auxVars, adr_pc, adrLocals,
                 calls, rerand_at>>

\* Algorithm.save_snapshot(meta_info): the base class stores the algorithm
\* under its save_name, whatever meta_info is
BaseSaveSnapshot(meta_info) == <<"Algorithm.save_snapshot: persist algorithm">>

\* the calls that write to the experiment directory
Persists(what) ==
  what \in {"Algorithm.save_snapshot: persist algorithm", "pyrado.save env.pkl",
            "subrtn.save_snapshot"}

\* ADR.save_snapshot(meta_info)
AdrSaveSnapshot(meta_info) ==
  /\ ctor_state = "constructed"
  /\ snap' = [called |-> TRUE, meta_info |-> meta_info, raised |-> meta_info # "None",
              did |-> BaseSaveSnapshot(meta_info) \o
                      (IF meta_info # "None" THEN <<>>
                       ELSE <<"pyrado.save env.pkl", "subrtn.save_snapshot">>)]
  /\ UNCHANGED <<adapterVars, trainVars, warm_up_time, num_discriminator_epoch,
                 ctor_args, ctor_state, effects, observedVars, auxVars, curr_time_step,
                 adr_pc, adrLocals, calls, rerand_at>>

\* ------------------------------------------------ what a specification that
\* does not exercise them holds fixed
DefaultParams ==
  /\ parameters = <<DomainParam("m")>>
  /\ env_nominal = [k \in ParamNames |-> 2 * Scale]

AdrBuilt ==
  /\ ctor_args = ValidArgs
  /\ ctor_state = "constructed"
  /\ effects = CtorEffectsBeforeAdapter \o CtorEffectsFromAdapter
  /\ snap = NoSnap

RecordIdle ==
  /\ returned = [p \in Particles |-> <<>>]
  /\ state_dicts = [p \in Particles |-> <<>>]
  /\ observations = <<>>

NoStepArgs == [i |-> NoIndex, act |-> NoVec]

PoolIdle ==
  /\ st_pc = "idle"
  /\ st_args = NoStepArgs
  /\ rand_jobs = <<>>
  /\ ref_jobs = <<>>
  /\ scored = 0

\* no environment object exists
NoEpisodic ==
  [built |-> FALSE, max_steps |-> 0, curr_step |-> 0, curr_step_rr |-> NoIndex,
   qpos_des |-> <<>>, dc |-> "none", starts |-> 0, applied |-> <<>>,
   completed_at |-> NoIndex, waiting |-> FALSE, episodes |-> 0]
NoStepBased ==
  [built |-> FALSE, observe_ball |-> FALSE, observe_cup |-> FALSE, num_dof |-> 0,
   max_steps |-> 0, curr_step |-> 0, state |-> <<>>, episodes |-> 0]
NoWamRet == [op |-> "none", obs |-> <<>>, done |-> FALSE, raised |-> FALSE]

WamIdle ==
  /\ episodic = NoEpisodic
  /\ stepbased = NoStepBased
  /\ wam_ret = NoWamRet

AuxIdle ==
  /\ RecordIdle
  /\ PoolIdle
  /\ WamIdle

ObservedIdle ==
  /\ sampled = NoSample
  /\ reward_call = NoRewardCall
  /\ AuxIdle

\* ------------------------------------------------- Spec: the adapter alone
\* (with the values of max_steps that MaxTotalSteps steps can reach)
Init ==
  /\ \E outcome \in PoolOutcomes, sl \in StepLengths, h \in Horizons,
        ms \in {m \in MaxStepsChoices : m <= MaxTotalSteps},
        draws \in [Particles -> RandomVectors] :
       AdapterInit(outcome, sl, h, ms, 1, draws)
  /\ DefaultParams
  /\ TrainIdle
  /\ AdrIdle
  /\ AdrBuilt
  /\ ObservedIdle
  /\ warm_up_time = 0
  /\ num_discriminator_epoch = 0

Reset ==
  /\ constructed
  /\ \E i \in Particles :
       \/ \E init_state \in InitStates : AdapterReset(i, init_state, NoVec)
       \/ \E draw \in RandomVectors : AdapterReset(i, NoVec, draw)
  /\ UNCHANGED <<trainVars, adrVars>>

ResetAll ==
  /\ constructed
  /\ \/ \E init_matrix \in [Particles -> InitStates] : AdapterResetAll(init_matrix, NoVec)
     \/ \E draws \in [Particles -> RandomVectors] : AdapterResetAll(NoVec, draws)
  /\ UNCHANGED <<trainVars, adrVars>>

Step ==
  /\ constructed
  /\ horizon_count < MaxTotalSteps
  /\ \E act \in Actions, i \in Particles :
       IF pool = "pool" /\ Rerandomize(count[i] + 1, horizon)
       THEN \E draw \in RandomVectors : AdapterStep(act, i, draw)
       ELSE AdapterStep(act, i, NoVec)
  /\ UNCHANGED <<trainVars, adrVars>>

Next == Reset \/ ResetAll \/ Step

Spec == Init /\ [][Next]_vars

\* ------------------------------------- SpecTrain: RewardGenerator.train alone
InitTrain ==
  /\ \E draws \in [Particles -> RandomVectors] :
       AdapterInit("ok", 1, 2, DefaultMaxSteps, 1, draws)
  /\ DefaultParams
  /\ TrainIdle
  /\ AdrIdle
  /\ AdrBuilt
  /\ ObservedIdle
  /\ warm_up_time = 0
  /\ num_discriminator_epoch = 0

TrainCall ==
  /\ weights < MaxWeights
  /\ \E R \in 0..MaxRollouts, S \in 0..MaxRollouts, E \in 0..MaxEpoch, logger \in BOOLEAN :
       TrainEnter(R, S, E, logger)
  /\ UNCHANGED <<adapterVars, adrVars>>

TrainPair == TrainPairBody /\ UNCHANGED <<adapterVars, adrVars>>

TrainEpochEnd == TrainEpochEndBody /\ UNCHANGED <<adapterVars, adrVars>>

TrainReturn == TrainReturnBody /\ UNCHANGED <<adapterVars, adrVars>>

NextTrain == TrainCall \/ TrainPair \/ TrainEpochEnd \/ TrainReturn

SpecTrain == InitTrain /\ [][NextTrain]_vars

\* ------------------------------------------------- SpecADR: ADR.step calls
\* ADR.__init__ builds the adapter (which ends with reset()) with the
\* default max_steps unless the attribute is set afterwards; the pool is
\* built from num_workers >= 1
InitADR ==
  /\ \E h \in Horizons, ms \in MaxStepsChoices, n \in NumTrajsChoices,
        draws \in [Particles -> RandomVectors] :
       AdapterInit("ok", 1, h, ms, n, draws)
  /\ DefaultParams
  /\ TrainIdle
  /\ AdrIdle
  /\ AdrBuilt
  /\ ObservedIdle
  /\ warm_up_time \in WarmUps
  /\ num_discriminator_epoch = 2

NextADR ==
  \/ AdrBegin
  \/ AdrResetParticle
  \/ AdrCollect
  \/ AdrParticleEnd
  \/ AdrTrain
  \/ TrainPair
  \/ TrainEpochEnd
  \/ TrainReturn
  \/ AdrSaveDiscriminator
  \/ AdrSvpgUpdate
  \/ AdrSnapshot

SpecADR == InitADR /\ [][NextADR]_vars

\* ------------- SpecRecord: the particle loop of one ADR.step, with the values
\* of the states it handles (a short max_steps set on the adapter)
ShortMaxSteps == {3}
UniformMatrices == {[p \in Particles |-> [k \in Dims |-> x]] : x \in {0, Scale - 1}}

InitRecord ==
  /\ \E h \in Horizons, ms \in ShortMaxSteps, draws \in UniformMatrices :
       AdapterInit("ok", 1, h, ms, 1, draws)
  /\ DefaultParams
  /\ TrainIdle
  /\ AdrIdle
  /\ AdrBuilt
  /\ ObservedIdle
  /\ warm_up_time = 0
  /\ num_discriminator_epoch = 0

CollectRecorded == AdrCollectRecorded([Dims -> {-1, 1}])

NextRecord ==
  \/ AdrBegin
  \/ AdrResetParticle
  \/ CollectRecorded
  \/ AdrParticleEndRecorded

SpecRecord == InitRecord /\ [][NextRecord]_vars

\* ----------------------- SpecCalls: adapter calls with every argument given
\* (step with its dictionaries, step without an index, reset with a
\* domain_param, eval_states); sampled describes the call in `last`
ResetInitStates == {[k \in Dims |-> Scale]}
CallActions == [Dims -> {-1, 1}]
EvalVectors == {[k \in Dims |-> 0], [k \in Dims |-> Scale]}
EvalInputs == UNION {[1..len -> EvalVectors] : len \in 0..MaxEvalStates}

notSampled == <<trainVars, warm_up_time, num_discriminator_epoch, lifeVars, reward_call, auxVars,
                curr_time_step, adr_pc, adrLocals, calls, rerand_at>>

InitCalls ==
  /\ \E outcome \in {"ok", "AssertionError"}, draws \in [Particles -> RandomVectors] :
       AdapterInit(outcome, 1, 2, DefaultMaxSteps, 2, draws)
  /\ parameters = <<DomainParam("m")>>
  /\ \E x \in NominalValues : env_nominal = [k \in ParamNames |-> x]
  /\ TrainIdle
  /\ AdrIdle
  /\ AdrBuilt
  /\ ObservedIdle
  /\ warm_up_time = 0
  /\ num_discriminator_epoch = 0

\* reset without a domain_param, which re-draws particle i
ResetCall ==
  /\ \E i \in Particles, draw \in RandomVectors : AdapterResetWith(i, NoVec, FALSE, draw)
  /\ sampled' = NoSample
  /\ UNCHANGED notSampled

\* reset with a domain_param, with and without an index and an init_state
ResetDomainParamCall ==
  /\ \/ \E i \in Particles, init_state \in ResetInitStates \cup {NoVec} :
          AdapterResetWith(i, init_state, TRUE,
                           IF init_state = NoVec THEN [k \in Dims |-> 0] ELSE NoVec)
     \/ \E init_state \in {[p \in Particles |-> s] : s \in ResetInitStates} \cup {NoVec} :
          AdapterResetWith(NoIndex, init_state, TRUE,
                           IF init_state = NoVec THEN [p \in Particles |-> [k \in Dims |-> 0]]
                           ELSE NoVec)
  /\ sampled' = NoSample
  /\ UNCHANGED notSampled

StepCall ==
  /\ horizon_count < MaxCallSteps
  /\ \E act \in CallActions, i \in Particles :
       IF pool = "pool" /\ Rerandomize(count[i] + 1, horizon)
       THEN \E draw \in RandomVectors : AdapterStepTraced(act, i, draw)
       ELSE AdapterStepTraced(act, i, NoVec)
  /\ UNCHANGED notSampled

StepNoneCall ==
  /\ \E act \in CallActions : AdapterStepNone(act)
  /\ sampled' = NoSample
  /\ UNCHANGED notSampled

EvalStatesCall ==
  /\ \E sts \in EvalInputs : AdapterEvalStates(sts)
  /\ sampled' = NoSample
  /\ UNCHANGED notSampled

NextCalls ==
  \/ ResetCall
  \/ ResetDomainParamCall
  \/ StepCall
  \/ StepNoneCall
  \/ EvalStatesCall

SpecCalls == InitCalls /\ [][NextCalls]_vars

\* ------------- SpecPool: SVPGAdapter.step statement by statement, the
\* rollouts of its two eval_domain_params calls run by the workers of the pool
NumWorkers == 2

notPool == <<trainVars, warm_up_time, num_discriminator_epoch, lifeVars, observedVars,
             recVars, wamVars, curr_time_step, adr_pc, adrLocals, calls, rerand_at>>

\* eval_domain_params hands one job per parameter dictionary to the pool
PoolJobs(n) == [j \in 1..n |-> "queued"]

\* eval_domain_params returns when the pool has run every job of the call
BatchComplete_Any(jobs) == \E j \in DOMAIN jobs : jobs[j] = "done"
BatchComplete(jobs) == \A j \in DOMAIN jobs : jobs[j] = "done"

Running(jobs) == Cardinality({j \in DOMAIN jobs : jobs[j] = "running"})

\* the move of the particle and the two dictionary lists; then
\* rand = eval_domain_params(self.pool, ..., random_parameters) is entered
PoolStepEnter ==
  /\ st_pc = "idle"
  /\ pool = "pool"
  /\ horizon_count < MaxCallSteps
  /\ \E act \in CallActions, i \in Particles :
       /\ inner_parameter_state' =
            [inner_parameter_state EXCEPT
               ![i] = MoveState(inner_parameter_state[i], act, svpg_max_step_length)]
       /\ st_args' = [i |-> i, act |-> act]
  /\ rand_jobs' = PoolJobs(Len(RandomParameters(num_trajs)))
  /\ ref_jobs' = <<>>
  /\ scored' = 0
  /\ st_pc' = "rand"
  /\ UNCHANGED <<adapterCfg, count, horizon_count, last, notPool>>

\* a free worker takes a queued rollout of the running call
PoolJobStart ==
  /\ st_pc \in {"rand", "ref"}
  /\ Running(rand_jobs) + Running(ref_jobs) < NumWorkers
  /\ \/ \E j \in DOMAIN rand_jobs :
          /\ rand_jobs[j] = "queued"
          /\ rand_jobs' = [rand_jobs EXCEPT ![j] = "running"]
          /\ UNCHANGED ref_jobs
     \/ \E j \in DOMAIN ref_jobs :
          /\ ref_jobs[j] = "queued"
          /\ ref_jobs' = [ref_jobs EXCEPT ![j] = "running"]
          /\ UNCHANGED rand_jobs
  /\ UNCHANGED <<adapterVars, st_pc, st_args, scored, notPool>>

\* a worker finishes its rollout
PoolJobFinish ==
  /\ \/ \E j \in DOMAIN rand_jobs :
          /\ rand_jobs[j] = "running"
          /\ rand_jobs' = [rand_jobs EXCEPT ![j] = "done"]
          /\ UNCHANGED ref_jobs
     \/ \E j \in DOMAIN ref_jobs :
          /\ ref_jobs[j] = "running"
          /\ ref_jobs' = [ref_jobs EXCEPT ![j] = "done"]
          /\ UNCHANGED rand_jobs
  /\ UNCHANGED <<adapterVars, st_pc, st_args, scored, notPool>>

\* the first eval_domain_params returns rand; then
\* ref = eval_domain_params(self.pool, ..., nominal_parameters) is entered
PoolRandReturn ==
  /\ st_pc = "rand"
  /\ BatchComplete(rand_jobs)
  /\ ref_jobs' = PoolJobs(Len(NominalParameters(num_trajs)))
  /\ st_pc' = "ref"
  /\ UNCHANGED <<adapterVars, st_args, rand_jobs, scored, notPool>>

\* the second eval_domain_params returns ref
PoolRefReturn ==
  /\ st_pc = "ref"
  /\ BatchComplete(ref_jobs)
  /\ st_pc' = "score"
  /\ UNCHANGED <<adapterVars, st_args, rand_jobs, ref_jobs, scored, notPool>>

\* rewards = [self.discriminator.get_reward(traj) for traj in rand], one
\* trajectory at a time
PoolScore ==
  /\ st_pc = "score"
  /\ scored < Len(rand_jobs)
  /\ scored' = scored + 1
  /\ UNCHANGED <<adapterVars, st_pc, st_args, rand_jobs, ref_jobs, notPool>>

\* reward, info, done, the two counters, the re-draw, and the return
PoolStepReturn ==
  /\ st_pc = "score"
  /\ scored = Len(rand_jobs)
  /\ LET i == st_args.i
         c == count[i] + 1
     IN /\ count' = [count EXCEPT ![i] = c]
        /\ horizon_count' = horizon_count + 1
        /\ IF Rerandomize(c, horizon)
           THEN \E draw \in RandomVectors :
                  /\ inner_parameter_state' = [inner_parameter_state EXCEPT ![i] = draw]
                  /\ last' = Call("step", i, st_args.act, draw, draw,
                                  StepDone(count[i], max_steps), FALSE,
                                  [rand |-> EvalDomainParams(i, count[i],
                                                             RandomParameters(num_trajs)),
                                   ref |-> EvalDomainParams(i, count[i],
                                                            NominalParameters(num_trajs))])
           ELSE /\ UNCHANGED inner_parameter_state
                /\ last' = Call("step", i, st_args.act, NoVec, inner_parameter_state[i],
                                StepDone(count[i], max_steps), FALSE,
                                [rand |-> EvalDomainParams(i, count[i],
                                                           RandomParameters(num_trajs)),
                                 ref |-> EvalDomainParams(i, count[i],
                                                          NominalParameters(num_trajs))])
  /\ st_pc' = "idle"
  /\ st_args' = NoStepArgs
  /\ rand_jobs' = <<>>
  /\ ref_jobs' = <<>>
  /\ scored' = 0
  /\ UNCHANGED <<adapterCfg, notPool>>

InitPool ==
  /\ \E n \in NumTrajsChoices, draws \in UniformMatrices :
       AdapterInit("ok", 1, 2, DefaultMaxSteps, n, draws)
  /\ DefaultParams
  /\ TrainIdle
  /\ AdrIdle
  /\ AdrBuilt
  /\ ObservedIdle
  /\ warm_up_time = 0
  /\ num_discriminator_epoch = 0

NextPool ==
  \/ PoolStepEnter
  \/ PoolJobStart
  \/ PoolJobFinish
  \/ PoolRandReturn
  \/ PoolRefReturn
  \/ PoolScore
  \/ PoolStepReturn

SpecPool == InitPool /\ [][NextPool]_vars

\* ------------- SpecEpisodic: WAMBallInCupRealEpisodic, its reset and step
\* calls and the calls robcom's control process makes to _callback
MaxWamSteps == 3
MaxEpisodes == 2

notWam == <<adapterVars, trainVars, warm_up_time, num_discriminator_epoch, lifeVars,
            observedVars, recVars, poolVars, curr_time_step, adr_pc, adrLocals, calls,
            rerand_at>>

WamActs == {-1, 1}

\* a row of qpos_des: how often step has added to it, and the sum added to
\* the initial pose
InitialRow == [writes |-> 0, val |-> 0]

\* observe(state) of the episodic class: the state, np.array([t])
EpisodicObs(c) == <<c>>

\* if self._curr_step >= self._max_steps (after the increment)
EpisodicStart_Early(c, ms) == c >= ms - 1
EpisodicStart(c, ms) == c >= ms

\* if self._curr_step_rr >= self.max_steps: return True
CallbackDone(rr, ms) == rr >= ms

\* WAMBallInCupRealEpisodic(num_dof, max_steps)
EpConstruct ==
  /\ ~episodic.built
  /\ \E ms \in 1..MaxWamSteps :
       episodic' = [NoEpisodic EXCEPT !.built = TRUE, !.max_steps = ms]
  /\ UNCHANGED <<stepbased, wam_ret, notWam>>

\* reset(): WAMReal.reset puts _curr_step to 0; then _curr_step_rr, the
\* state, the desired trajectory of max_steps rows, and a new process
EpReset ==
  /\ episodic.built
  /\ ~episodic.waiting
  /\ episodic.episodes < MaxEpisodes
  /\ episodic' = [episodic EXCEPT
                    !.curr_step = 0,
                    !.curr_step_rr = 0,
                    !.qpos_des = [k \in 1..episodic.max_steps |-> InitialRow],
                    !.dc = "created",
                    !.starts = 0,
                    !.applied = <<>>,
                    !.completed_at = NoIndex,
                    !.episodes = @ + 1]
  /\ wam_ret' = [op |-> "reset", obs |-> EpisodicObs(0), done |-> FALSE, raised |-> FALSE]
  /\ UNCHANGED <<stepbased, notWam>>

\* step(act) up to its return, or up to self._dc.wait_for_completion();
\* qpos_des[self._curr_step, ...] raises IndexError past the last row
EpStep ==
  /\ episodic.dc # "none"
  /\ ~episodic.waiting
  /\ \E act \in WamActs :
       IF episodic.curr_step >= Len(episodic.qpos_des)
       THEN /\ wam_ret' = [op |-> "step", obs |-> <<>>, done |-> FALSE, raised |-> TRUE]
            /\ UNCHANGED episodic
       ELSE LET c == episodic.curr_step + 1
                rows == [episodic.qpos_des EXCEPT
                           ![c] = [writes |-> @.writes + 1, val |-> @.val + act]]
            IN IF EpisodicStart(c, episodic.max_steps)
               THEN /\ episodic' = [episodic EXCEPT
                                      !.qpos_des = rows, !.curr_step = c,
                                      !.dc = "running", !.starts = @ + 1,
                                      !.waiting = TRUE]
                    /\ UNCHANGED wam_ret
               ELSE /\ episodic' = [episodic EXCEPT !.qpos_des = rows, !.curr_step = c]
                    /\ wam_ret' = [op |-> "step", obs |-> EpisodicObs(c), done |-> FALSE,
                                   raised |-> FALSE]
  /\ UNCHANGED <<stepbased, notWam>>

\* the running process calls _callback(jg, eg, data_provider); it ends when
\* the callback returns True
EpCallback ==
  /\ episodic.dc = "running"
  /\ IF CallbackDone(episodic.curr_step_rr, episodic.max_steps)
     THEN episodic' = [episodic EXCEPT
                         !.dc = "completed", !.completed_at = episodic.curr_step_rr]
     ELSE episodic' = [episodic EXCEPT
                         !.applied = Append(@, [row |-> episodic.curr_step_rr,
                                                val |-> episodic.qpos_des[
                                                          episodic.curr_step_rr + 1].val]),
                         !.curr_step_rr = @ + 1]
  /\ UNCHANGED <<stepbased, wam_ret, notWam>>

\* wait_for_completion() returns; done is True and step returns
EpStepFinish ==
  /\ episodic.waiting
  /\ episodic.dc = "completed"
  /\ episodic' = [episodic EXCEPT !.waiting = FALSE]
  /\ wam_ret' = [op |-> "step", obs |-> EpisodicObs(episodic.curr_step), done |-> TRUE,
                 raised |-> FALSE]
  /\ UNCHANGED <<stepbased, notWam>>

InitWam ==
  /\ ctor_args = ValidArgs
  /\ ctor_state = "new"
  /\ effects = <<>>
  /\ snap = NoSnap
  /\ AdapterAbsent
  /\ DefaultParams
  /\ TrainIdle
  /\ AdrIdle
  /\ ObservedIdle
  /\ warm_up_time = 0
  /\ num_discriminator_epoch = 0

NextEpisodic ==
  \/ EpConstruct
  \/ EpReset
  \/ EpStep
  \/ EpCallback
  \/ EpStepFinish

SpecEpisodic == InitWam /\ [][NextEpisodic]_vars

\* ------------- SpecStepBased: WAMBallInCupRealStepBased, its reset and step
\* calls with the positions the tracker reports
NumDofs == {4, 7}
Coordinates == {0, 1}
TrackerEstimates == [1..3 -> Coordinates]

\* an entry of a state or observation vector: where it comes from (for a
\* position k = 1, 2, 3 is x, y, z) and its value
Entry(part, k, val) == [part |-> part, k |-> k, val |-> val]

\* np.concatenate(self._get_joint_state()): qpos, then qvel
JointState(nd) ==
  [k \in 1..nd |-> Entry("qpos", k, 0)] \o [k \in 1..nd |-> Entry("qvel", k, 0)]

\* a position reported for a rigid body
Position(part, est) == [k \in 1..3 |-> Entry(part, k, est[k])]

\* state_space: the joint positions and velocities, then three entries for
\* the ball and three for the cup when they are observed
StateSpaceDim(nd, ob, oc) == 2 * nd + (IF ob THEN 3 ELSE 0) + (IF oc THEN 3 ELSE 0)

\* obs_space: its labels
ObsLabels(ob, oc) ==
  <<"t">> \o (IF ob THEN <<"ball_x", "ball_z">> ELSE <<>>)
          \o (IF oc THEN <<"cup_x", "cup_z">> ELSE <<>>)

\* state[k] for a negative k
PyLast(state, k) == state[Len(state) + 1 + k]

\* observe(state): the normalized time (its numerator), then state[-3] and
\* state[-1] if observe_ball, then state[-6] and state[-4] if observe_cup
Observe(state, c, ob, oc) ==
  <<Entry("t", 0, c)>>
    \o (IF ob THEN <<PyLast(state, -3), PyLast(state, -1)>> ELSE <<>>)
    \o (IF oc THEN <<PyLast(state, -6), PyLast(state, -4)>> ELSE <<>>)

\* WAMBallInCupRealStepBased(observe_ball, observe_cup, num_dof, max_steps)
SbConstruct ==
  /\ ~stepbased.built
  /\ \E ob \in BOOLEAN, oc \in BOOLEAN, nd \in NumDofs, ms \in 1..MaxWamSteps :
       stepbased' = [NoStepBased EXCEPT !.built = TRUE, !.observe_ball = ob,
                                        !.observe_cup = oc, !.num_dof = nd,
                                        !.max_steps = ms]
  /\ UNCHANGED <<episodic, wam_ret, notWam>>

\* reset(): WAMReal.reset puts _curr_step to 0; the state is the joint state
SbReset ==
  /\ stepbased.built
  /\ stepbased.episodes < MaxEpisodes
  /\ \E s \in {JointState(stepbased.num_dof)} :
       /\ stepbased' = [stepbased EXCEPT !.curr_step = 0, !.state = s, !.episodes = @ + 1]
       /\ wam_ret' = [op |-> "reset",
                      obs |-> Observe(s, 0, stepbased.observe_ball, stepbased.observe_cup),
                      done |-> FALSE, raised |-> FALSE]
  /\ UNCHANGED <<episodic, notWam>>

\* step(act): the state is the joint state, then the ball position if
\* observe_ball, then the cup position if observe_cup
SbStep ==
  /\ stepbased.episodes > 0
  /\ stepbased.curr_step < stepbased.max_steps
  /\ \E ball \in TrackerEstimates, cup \in TrackerEstimates :
       \E s \in {JointState(stepbased.num_dof)
                   \o (IF stepbased.observe_ball THEN Position("ball", ball) ELSE <<>>)
                   \o (IF stepbased.observe_cup THEN Position("cup", cup) ELSE <<>>)} :
         /\ stepbased' = [stepbased EXCEPT !.curr_step = @ + 1, !.state = s]
         /\ wam_ret' = [op |-> "step",
                        obs |-> Observe(s, stepbased.curr_step + 1,
                                        stepbased.observe_ball, stepbased.observe_cup),
                        done |-> stepbased.curr_step + 1 >= stepbased.max_steps,
                        raised |-> FALSE]
  /\ UNCHANGED <<episodic, notWam>>

NextStepBased ==
  \/ SbConstruct
  \/ SbReset
  \/ SbStep

SpecStepBased == InitWam /\ [][NextStepBased]_vars

\* ------------- SpecHelpers: the dictionary helpers and the reward function
ParamLists ==
  UNION {[1..len -> {DomainParam(name) : name \in ParamNames}] : len \in 1..MaxParams}

\* StepSequences of up to MaxTrajLen observations and one action less, and
\* arguments that are not a StepSequence
RolloutArgs ==
  {[type |-> "StepSequence", observations |-> obs,
    actions |-> [t \in 1..(Len(obs) - 1) |-> t]] :
     obs \in UNION {[1..len -> {0}] : len \in 1..MaxTrajLen}}
  \cup {[type |-> ty, observations |-> <<>>, actions |-> <<>>] : ty \in {"list", "None"}}

InitHelpers ==
  /\ parameters \in ParamLists
  /\ env_nominal \in [ParamNames -> NominalValues]
  /\ \E x \in {0, Scale - 1} :
       AdapterInit("ok", 1, 2, DefaultMaxSteps, 1,
                   [p \in Particles |-> [k \in 1..Len(parameters) |-> x]])
  /\ TrainIdle
  /\ AdrIdle
  /\ AdrBuilt
  /\ ObservedIdle
  /\ warm_up_time = 0
  /\ num_discriminator_epoch = 0

HelperRet(op, arg, ret) == Call(op, NoIndex, arg, NoVec, ret, FALSE, FALSE, NoInfo)

ParamsCall ==
  /\ last' = HelperRet("params", NoVec, Params(parameters))
  /\ UNCHANGED <<adapterCfg, adapterState, trainVars, adrVars>>

NominalCall ==
  /\ last' = HelperRet("nominal", NoVec, Nominal(parameters, env_nominal))
  /\ UNCHANGED <<adapterCfg, adapterState, trainVars, adrVars>>

NominalDictCall ==
  /\ last' = HelperRet("nominal_dict", NoVec, NominalDict(parameters, env_nominal))
  /\ UNCHANGED <<adapterCfg, adapterState, trainVars, adrVars>>

\* array_to_dict applied to what nominal() returned, or to a state of a particle
ArrayToDictCall ==
  /\ \E arr \in {Nominal(parameters, env_nominal)}
                  \cup {inner_parameter_state[p] : p \in Particles} :
       last' = HelperRet("array_to_dict", arr, ArrayToDict(parameters, arr))
  /\ UNCHANGED <<adapterCfg, adapterState, trainVars, adrVars>>

notRewardCall == <<adapterVars, trainCall, warm_up_time, num_discriminator_epoch, lifeVars, auxVars,
                   sampled, curr_time_step, adr_pc, adrLocals, calls, rerand_at>>

PreprocessCall ==
  /\ \E rollout \in RolloutArgs : PreprocessRolloutCall(rollout)
  /\ UNCHANGED <<notRewardCall, weights>>

GetRewardCall ==
  /\ \E traj \in RolloutArgs : GetReward(traj)
  /\ UNCHANGED notRewardCall

NextHelpers ==
  \/ ParamsCall
  \/ NominalCall
  \/ NominalDictCall
  \/ ArrayToDictCall
  \/ PreprocessCall
  \/ GetRewardCall

SpecHelpers == InitHelpers /\ [][NextHelpers]_vars

\* ------------------------- SpecLife: ADR is constructed, then snapshotted
InitLife ==
  /\ ctor_args \in CtorKinds
  /\ ctor_state = "new"
  /\ effects = <<>>
  /\ snap = NoSnap
  /\ AdapterAbsent
  /\ DefaultParams
  /\ TrainIdle
  /\ AdrIdle
  /\ ObservedIdle
  /\ warm_up_time = 0
  /\ num_discriminator_epoch = 0

Construct ==
  \E outcome \in PoolOutcomes, sl \in StepLengths, h \in Horizons, n \in NumTrajsChoices,
     w \in WarmUps, E \in 1..MaxEpoch, draws \in [Particles -> RandomVectors] :
    AdrConstruct(outcome, sl, h, n, w, E, draws)

SaveSnapshot == \E meta_info \in {"None", "dict"} : AdrSaveSnapshot(meta_info)

NextLife == Construct \/ SaveSnapshot

SpecLife == InitLife /\ [][NextLife]_vars

\* ================================================================ claims
Min(a, b) == IF a < b THEN a ELSE b

\* a transition in which SVPGAdapter.step ran to its return statement
StepReturned == horizon_count' = horizon_count + 1

\* C1: SVPGAdapter.step(a, i) that returns: if particle i's counter after the
\* step is not a positive multiple of horizon, the vector stored for i and
\* returned is clip(v + clip(a, -1, 1) * step_length, 0, 1) componentwise,
\* v being the vector before the step; if it is a positive multiple, the
\* vector is the fresh draw of the random source, whatever v and a were.
C1_StepRule ==
  [][StepReturned =>
       LET i == last'.i
           v == inner_parameter_state[i]
           a == last'.act
           c == count'[i]
           clipped == [k \in Dims |->
                         LET ca == IF a[k] < -ActScale THEN -ActScale
                                   ELSE IF a[k] > ActScale THEN ActScale ELSE a[k]
                             x == v[k] + ca * svpg_max_step_length
                         IN IF x < 0 THEN 0 ELSE IF x > Scale THEN Scale ELSE x]
       IN /\ last'.op = "step"
          /\ last'.ret = inner_parameter_state'[i]
          /\ IF c > 0 /\ c % horizon = 0
             THEN /\ last'.draw \in RandomVectors
                  /\ inner_parameter_state'[i] = last'.draw
             ELSE /\ last'.draw = NoVec
                  /\ inner_parameter_state'[i] = clipped]_vars

\* a step that did not re-randomize, taken with an action beyond 1, after
\* which the particle is strictly inside the range
C1_Witness ==
  /\ last.op = "step"
  /\ ~last.raised
  /\ last.draw = NoVec
  /\ last.act[1] > ActScale
  /\ svpg_max_step_length = 1
  /\ inner_parameter_state[last.i][1] > 0
  /\ inner_parameter_state[last.i][1] < Scale

\* C2: after one SVPGAdapter.step(a, i), for any vector, any action (also
\* outside [-1, 1]) and any step length, every component of particle i's
\* vector lies in [0, 1], re-randomized or not.
C2_StepInRange ==
  last.op = "step" =>
    \A k \in Dims : /\ inner_parameter_state[last.i][k] >= 0
                    /\ inner_parameter_state[last.i][k] <= Scale

\* a step with an action beyond 1 and the large negative step length, which
\* would leave the range by far, ends on the lower edge
C2_Witness ==
  /\ last.op = "step"
  /\ last.draw = NoVec
  /\ last.act[1] = MaxAct
  /\ svpg_max_step_length < 0
  /\ inner_parameter_state[last.i][1] = 0

\* C3: SVPGAdapter.step(a, i) returns done = true exactly when particle i's
\* counter before the increment has reached max_steps - 1: counted from the
\* reset of i, steps 1..max_steps-1 return false, step max_steps (and any
\* later one) returns true.
C3_DoneAtMaxSteps ==
  (last.op = "step" /\ ~last.raised) =>
    (last.done <=> count[last.i] - 1 >= max_steps - 1)

\* the max_steps-th step since the reset of the particle returned done
C3_Witness ==
  /\ last.op = "step"
  /\ ~last.raised
  /\ last.done
  /\ count[last.i] = max_steps

\* C10: if SamplerPool raises in SVPGAdapter's constructor, then, seen at a
\* later step call: construction succeeded, a warning was surfaced, and the
\* step did not fail for want of the pool.
C10_DegradedMode ==
  (pool = "unset" /\ last.op = "step") => (constructed /\ warned /\ ~last.raised)

\* ------------------------------------------------ claims under SpecTrain

\* C5: RewardGenerator.train runs num_epoch epochs, in each pairs the
\* same-index sub-rollouts of the two populations up to the shorter one with
\* one optimizer step per pair: num_epoch * min(R, S) optimizer steps in
\* all, and no sub-rollout beyond the shorter population is used in a pair.
C5_StepsPerEpoch ==
  tr_pc = "returned" =>
    /\ epoch = tr_args.num_epoch
    /\ opt_steps = tr_args.num_epoch * Min(tr_args.ref, tr_args.rand)
    /\ \A k \in 1..Len(pairs) :
         /\ pairs[k].ref = pairs[k].rand
         /\ pairs[k].ref <= Min(tr_args.ref, tr_args.rand)

\* C6: RewardGenerator.train with num_epoch = 0, or with batches that give
\* no pair, takes no optimizer step, does not raise (with a logger attached
\* the loss is reported), and returns None; otherwise it returns the loss of
\* the last pair processed.
C6_TrainResult ==
  tr_pc = "returned" =>
    /\ ~tr_raised
    /\ (tr_args.num_epoch = 0 \/ tr_args.ref = 0 \/ tr_args.rand = 0) =>
         (opt_steps = 0 /\ pairs = <<>> /\ tr_ret.kind = "None")
    /\ pairs # <<>> =>
         /\ tr_ret.kind = "value"
         /\ tr_ret.epoch = pairs[Len(pairs)].epoch
         /\ tr_ret.pair = pairs[Len(pairs)].ref
    /\ logged = IF tr_args.logger
                THEN <<[key |-> "discriminator_loss", value |-> tr_ret]>>
                ELSE <<>>

\* train returned from a call with num_epoch = 0, non-empty batches and a
\* logger, which was given the loss
C6_Witness ==
  /\ tr_pc = "returned"
  /\ tr_args.num_epoch = 0
  /\ tr_args.ref > 0
  /\ tr_args.rand > 0
  /\ tr_args.logger
  /\ Len(logged) = 1

\* -------------------------------------------------- claims under SpecADR

\* the scenario of C4
Scenario ==
  /\ NumParticles = 2
  /\ Cardinality(Dims) = 1
  /\ max_steps = 4
  /\ horizon = 2
  /\ num_trajs = 1

\* an ADR.step call has run to its end
IterationDone == adr_pc = "idle" /\ curr_time_step >= 1

\* C4 as amended: in the scenario (2 particles, 1 parameter, the adapter's
\* max_steps = 4, horizon = 2, num_trajs_per_config = 1) one ADR.step gives 2
\* particle rollouts of length 4, re-randomizes each particle exactly twice
\* (in step 2 and in step 4, the step that returns done), and trains the
\* discriminator exactly once, on 2*4*1 randomized and 2*4*1 reference
\* rollouts.
C4_ScenarioTwoRerands ==
  (Scenario /\ IterationDone) =>
    /\ Len(ros) = 2
    /\ \A k \in 1..Len(ros) : ros[k].length = 4
    /\ \A p \in Particles : rerand_at[p] = <<2, 4>>
    /\ Len(CallsOf("reward_generator.train")) = 1
    /\ Len(CallsOf("reward_generator.train")[1].arg.rand) = 8
    /\ Len(CallsOf("reward_generator.train")[1].arg.ref) = 8

\* the first ADR.step of the scenario has ended
C4_Witness == Scenario /\ IterationDone /\ curr_time_step = 1

\* C4 as claimed: the same with exactly one re-randomization per particle,
\* after step 2.
C4_ScenarioOneRerand ==
  (Scenario /\ IterationDone) =>
    /\ Len(ros) = 2
    /\ \A k \in 1..Len(ros) : ros[k].length = 4
    /\ \A p \in Particles : rerand_at[p] = <<2>>
    /\ Len(CallsOf("reward_generator.train")) = 1
    /\ Len(CallsOf("reward_generator.train")[1].arg.rand) = 8
    /\ Len(CallsOf("reward_generator.train")[1].arg.ref) = 8

\* the value self.curr_time_step has inside the ADR.step that is running or
\* has just ended
IterCounter == IF adr_pc = "idle" THEN curr_time_step - 1 ELSE curr_time_step

\* ADR.step is past the place of the ensemble update
PastSvpgGate == adr_pc = "snapshot" \/ IterationDone

\* C7: in ADR.step svpg.update is called if and only if the iteration
\* counter at that place exceeds the warm-up threshold; it is then called
\* once in that outer iteration, with one group per particle in particle
\* order, each group holding exactly that particle's one rollout of this
\* iteration.
C7_GatedUpdate ==
  LET ups == CallsOf("svpg.update")
  IN /\ Len(ups) <= 1
     /\ ~PastSvpgGate => Len(ups) = 0
     /\ PastSvpgGate => (Len(ups) = 1 <=> IterCounter > warm_up_time)
     /\ Len(ups) = 1 =>
          LET groups == ups[1].arg
          IN /\ Len(groups) = NumParticles
             /\ \A k \in 1..Len(groups) :
                  /\ Len(groups[k]) = 1
                  /\ groups[k][1].particle = k - 1
                  /\ groups[k][1].iter = IterCounter
                  /\ groups[k][1].length = max_steps

\* an outer iteration past the warm-up has updated the ensemble
C7_Witness ==
  /\ IterationDone
  /\ IterCounter > warm_up_time
  /\ Len(CallsOf("svpg.update")) = 1

\* C8: svpg_warmup is the number of outer iterations without SVPG training
\* in the beginning: of a fresh ADR the first svpg_warmup calls of step make
\* no svpg.update and call number svpg_warmup + 1 makes one.
C8_WarmupCount ==
  (IterationDone /\ curr_time_step <= warm_up_time + 1) =>
    (Len(CallsOf("svpg.update")) = 1 <=> curr_time_step = warm_up_time + 1)

\* C9: every adapter step returns a randomized and a reference batch of
\* num_trajs_per_config rollouts each, the lists ADR.step accumulates have
\* equal length throughout, and the discriminator is trained on as many
\* randomized as reference sub-rollouts, every one of them in a pair.
C9_BalancedBatches ==
  /\ (last.op = "step" /\ ~last.raised) =>
       /\ Len(last.info.rand) = num_trajs
       /\ Len(last.info.ref) = num_trajs
  /\ Len(rand_trajs) = Len(ref_trajs)
  /\ tr_pc # "idle" => tr_args.ref = tr_args.rand
  /\ (adr_pc = "training" /\ tr_pc = "returned") =>
       /\ tr_args.rand = Len(rand_trajs)
       /\ tr_args.ref = Len(ref_trajs)
       /\ Len(pairs) = tr_args.ref
       /\ \A k \in 1..Len(pairs) : pairs[k].ref = k /\ pairs[k].rand = k

\* the discriminator was trained on the batches of a whole iteration with
\* two rollouts per configuration
C9_Witness ==
  /\ tr_pc = "returned"
  /\ num_trajs = 2
  /\ Len(pairs) = NumParticles * max_steps * num_trajs

\* ------------------------------------------------------------ C11, C12

\* C11: ADR.save_snapshot called as a nested subroutine (meta_info is not
\* None) raises with nothing persisted before the error (the environment is
\* not saved, the subroutine's save_snapshot is not called); called at top
\* level it saves the environment and then calls the subroutine's
\* save_snapshot.
C11_SnapshotGuard ==
  snap.called =>
    IF snap.meta_info # "None"
    THEN /\ snap.raised
         /\ \A j \in 1..Len(snap.did) : ~Persists(snap.did[j])
    ELSE /\ ~snap.raised
         /\ \E a, b \in 1..Len(snap.did) :
              /\ a < b
              /\ snap.did[a] = "pyrado.save env.pkl"
              /\ snap.did[b] = "subrtn.save_snapshot"

\* the constructor was given an argument of the wrong kind
InvalidArgs ==
  \/ ctor_args.env # "Env"
  \/ ctor_args.subrtn # "Algorithm"
  \/ ctor_args.policy # "Policy"

\* C12: when env is not an environment, subrtn is not an algorithm or
\* subrtn.policy is not a policy, ADR's constructor raises before any
\* side effect: no attribute is set, subrtn.save_name is untouched, and no
\* reward generator, adapter or SVPG object is created.
C12_CtorRaisesFirst ==
  (ctor_state # "new" /\ InvalidArgs) =>
    /\ ctor_state = "raised"
    /\ effects = <<>>
    /\ ~constructed
    /\ last.op = "none"

\* a constructor call that got an environment and an algorithm whose policy
\* is not a policy has raised
C12_Witness ==
  /\ ctor_state = "raised"
  /\ ctor_args = [env |-> "Env", subrtn |-> "Algorithm", policy |-> "other"]
  /\ effects = <<>>

\* ------------------------------------------------------------ C13 .. C20

\* C13: step called without a particle index raises and changes nothing:
\* no particle's vector, no step counter, no global counter, and no
\* rollouts are sampled.
C13_StepNeedsIndex ==
  [][(last'.op = "step" /\ last'.i = NoIndex) =>
       /\ last'.raised
       /\ last'.info = NoInfo
       /\ last'.ret = NoVec
       /\ UNCHANGED <<inner_parameter_state, count, horizon_count>>]_vars

\* step without an index was called after a step with one
C13_Witness ==
  /\ last.op = "step"
  /\ last.i = NoIndex
  /\ last.raised
  /\ horizon_count > 0

\* C14: reset(i, init_state) zeroes particle i's counter, sets its vector
\* to init_state if given and to a fresh draw otherwise, and returns that
\* vector; reset() without an index does so for every particle and returns
\* the whole matrix.
C14_ResetResult ==
  /\ (last.op = "reset" /\ ~last.raised) =>
       /\ count[last.i] = 0
       /\ inner_parameter_state[last.i] =
            (IF last.act # NoVec THEN last.act ELSE last.draw)
       /\ last.act = NoVec => last.draw \in RandomVectors
       /\ last.ret = inner_parameter_state[last.i]
  /\ (last.op = "reset_all" /\ ~last.raised) =>
       /\ \A p \in Particles : count[p] = 0
       /\ inner_parameter_state = (IF last.act # NoVec THEN last.act ELSE last.draw)
       /\ last.act = NoVec => last.draw \in [Particles -> RandomVectors]
       /\ last.ret = inner_parameter_state

\* a particle that had stepped was reset to a given init_state
C14_Witness ==
  /\ last.op = "reset"
  /\ last.act # NoVec
  /\ last.act \in RandomVectors
  /\ horizon_count > 0
  /\ count[last.i] = 0

\* C15: reset given both an init_state and a domain_param fails, with or
\* without a particle index, and leaves every vector and counter as it was.
C15_ResetRejectsDomainParam ==
  [][(last'.op \in {"reset", "reset_all"} /\ last'.domain_param /\ last'.act # NoVec) =>
       /\ last'.raised
       /\ UNCHANGED <<inner_parameter_state, count, horizon_count>>]_vars

\* such a reset of a particle whose counter is not zero has failed
C15_Witness ==
  /\ last.op = "reset"
  /\ last.domain_param
  /\ last.act # NoVec
  /\ last.raised
  /\ count[last.i] > 0
  /\ inner_parameter_state[last.i] # last.act

\* the dictionary for a normalized vector: (value + 0.5) * nominal, per name
IsDictOf(d, v) ==
  /\ DOMAIN d = {parameters[q].name : q \in 1..Len(parameters)}
  /\ \A q \in 1..Len(parameters) :
       d[parameters[q].name] * 2 * Scale
         = (2 * v[q] + Scale) * env_nominal[parameters[q].name]

IsNominalDict(d) ==
  /\ DOMAIN d = {parameters[q].name : q \in 1..Len(parameters)}
  /\ \A q \in 1..Len(parameters) :
       d[parameters[q].name] = env_nominal[parameters[q].name]

\* C16: eval_states(states) that returns changes no vector and no counter,
\* returns len(states) rewards, reward j being the mean over exactly the
\* num_trajs rollouts generated from states[j], and len(states) * num_trajs
\* randomized and as many reference rollouts.
C16_EvalStates ==
  [][(last'.op = "eval_states" /\ ~last'.raised) =>
       LET sts == last'.act
           rand == last'.info.rand
           ref == last'.info.ref
       IN /\ UNCHANGED <<inner_parameter_state, count, horizon_count>>
          /\ Len(last'.ret) = Len(sts)
          /\ Len(rand) = Len(sts) * num_trajs
          /\ Len(ref) = Len(sts) * num_trajs
          /\ \A j \in 1..Len(sts) :
               /\ Len(last'.ret[j].mean_of) = num_trajs
               /\ \A m \in 1..num_trajs :
                    /\ last'.ret[j].mean_of[m] = RewardOf(rand[(j - 1) * num_trajs + m])
                    /\ IsDictOf(rand[(j - 1) * num_trajs + m].cfg, sts[j])
          /\ \A k \in 1..Len(ref) : IsNominalDict(ref[k].cfg)]_vars

\* two different states were evaluated with two rollouts each
C16_Witness ==
  /\ last.op = "eval_states"
  /\ ~last.raised
  /\ Len(last.act) = 2
  /\ last.act[1] # last.act[2]
  /\ num_trajs = 2
  /\ Len(last.info.rand) = 4

\* C17: after construction, every reset and every step, every component of
\* every particle's vector lies in [0, 1].
C17_StateInRange ==
  constructed =>
    \A p \in Particles : \A k \in DOMAIN inner_parameter_state[p] :
      0 <= inner_parameter_state[p][k] /\ inner_parameter_state[p][k] <= Scale

\* C18: the dictionaries step gives to the randomized rollouts map each name
\* to (normalized value + 0.5) * nominal for the moved and clipped vector:
\* 0.5 gives the nominal value, a positive nominal gives a value in
\* [0.5 * nominal, 1.5 * nominal]; the reference rollouts get the nominal
\* dictionary.
C18_StepDictionaries ==
  (last.op = "step" /\ last.i # NoIndex /\ ~last.raised) =>
    /\ Len(sampled.rand) = num_trajs
    /\ Len(sampled.ref) = num_trajs
    /\ \A q \in DOMAIN sampled.moved : 0 <= sampled.moved[q] /\ sampled.moved[q] <= Scale
    /\ last.draw = NoVec => sampled.moved = inner_parameter_state[last.i]
    /\ \A j \in 1..num_trajs :
         /\ IsDictOf(sampled.rand[j], sampled.moved)
         /\ IsNominalDict(sampled.ref[j])
         /\ \A q \in 1..Len(parameters) :
              LET name == parameters[q].name
              IN /\ 2 * sampled.moved[q] = Scale =>
                      sampled.rand[j][name] = env_nominal[name]
                 /\ env_nominal[name] > 0 =>
                      /\ env_nominal[name] <= 2 * sampled.rand[j][name]
                      /\ 2 * sampled.rand[j][name] <= 3 * env_nominal[name]

\* a step that re-drew the particle built its dictionaries, for a positive
\* nominal value, from a moved vector that is not the one it returned
C18_Witness ==
  /\ last.op = "step"
  /\ last.i # NoIndex
  /\ ~last.raised
  /\ last.draw # NoVec
  /\ sampled.moved # last.ret
  /\ \A name \in ParamNames : env_nominal[name] > 0
  /\ Len(sampled.rand) = num_trajs

\* C19: array_to_dict(nominal()) equals nominal_dict(): params, nominal and
\* nominal_dict follow the one ordering of the names, and the dictionary
\* has exactly one entry per randomized name.
C19_NominalRoundTrip ==
  LET names == {parameters[q].name : q \in 1..Len(parameters)}
  IN /\ last.op = "params" =>
          last.ret = [q \in 1..Len(parameters) |-> parameters[q].name]
     /\ last.op = "nominal" =>
          last.ret = [q \in 1..Len(parameters) |-> env_nominal[parameters[q].name]]
     /\ last.op = "nominal_dict" => last.ret = [k \in names |-> env_nominal[k]]
     /\ (last.op = "array_to_dict" /\ last.act = Nominal(parameters, env_nominal)) =>
          /\ last.ret = NominalDict(parameters, env_nominal)
          /\ last.ret = [k \in names |-> env_nominal[k]]
          /\ (\A q, r \in 1..Len(parameters) :
                parameters[q].name = parameters[r].name => q = r)
               => Cardinality(DOMAIN last.ret) = Len(parameters)

\* array_to_dict was applied to nominal() for two names with different values
C19_Witness ==
  /\ last.op = "array_to_dict"
  /\ last.act = Nominal(parameters, env_nominal)
  /\ Len(parameters) = 2
  /\ parameters[1].name # parameters[2].name
  /\ last.act[1] # last.act[2]

\* C20: preprocess_rollout raises the type error for an argument that is
\* not a trajectory, before using it; so get_reward raises too and runs no
\* forward pass.
C20_TypeErrorFirst ==
  (reward_call.fn # "none" /\ reward_call.arg.type # "StepSequence") =>
    /\ reward_call.raised = "TypeErr"
    /\ ~reward_call.touched
    /\ reward_call.forward = 0

\* get_reward was called with a plain list
C20_Witness ==
  /\ reward_call.fn = "get_reward"
  /\ reward_call.arg.type = "list"
  /\ reward_call.raised = "TypeErr"

\* ------------------------------------------------------------ C21, C22

\* the place of a call in the phases of ADR.step
PhaseRank(fn) ==
  CASE fn \in {"svpg_env.reset", "svpg_env.step", "subrtn.update"} -> 1
    [] fn = "reward_generator.train" -> 2
    [] fn = "save_discriminator" -> 3
    [] fn = "svpg.update" -> 4
    [] fn = "make_snapshot" -> 5
    [] fn = "subrtn.make_snapshot" -> 6

\* the particle whose loop the k-th call belongs to: the number of
\* subrtn.update calls before it
ParticleAt(k) == Cardinality({m \in 1..(k - 1) : calls[m].fn = "subrtn.update"})

\* the calls made so far in this ADR.step are in phase order, training and
\* the checkpoint happen at most once, and the two snapshots get one value
PhasesInOrder ==
  /\ \A k \in 1..(Len(calls) - 1) : PhaseRank(calls[k].fn) <= PhaseRank(calls[k + 1].fn)
  /\ \A fn \in {"reward_generator.train", "save_discriminator", "svpg.update",
                "make_snapshot", "subrtn.make_snapshot"} : Len(CallsOf(fn)) <= 1
  /\ \A k \in 1..Len(calls) :
       calls[k].fn = "subrtn.make_snapshot" =>
         /\ k > 1
         /\ calls[k - 1].fn = "make_snapshot"
         /\ calls[k - 1].arg.curr_avg_ret = calls[k].arg.curr_avg_ret
         /\ calls[k].arg.snapshot_mode = "best"
  /\ adr_pc \in {"svpg", "snapshot"} => Len(CallsOf("save_discriminator")) = 1
  /\ (adr_pc = "idle" /\ calls # <<>>) =>
       /\ Len(CallsOf("reward_generator.train")) = 1
       /\ Len(CallsOf("save_discriminator")) = 1
       /\ Len(CallsOf("subrtn.make_snapshot")) = 1
       /\ calls[Len(calls)].fn = "subrtn.make_snapshot"

\* every subrtn.update comes after the whole collection of its own particle
UpdateAfterOwnCollection ==
  \A k, m \in 1..Len(calls) :
    (calls[k].fn = "subrtn.update" /\ calls[m].fn = "svpg_env.step"
       /\ calls[m].arg = ParticleAt(k)) => m < k

\* every subrtn.update comes after the collection of all particles
UpdateAfterAllCollection ==
  \A k, m \in 1..Len(calls) :
    (calls[k].fn = "subrtn.update" /\ calls[m].fn = "svpg_env.step") => m < k

\* the counter moves only by one, in the step that makes the two snapshots
CounterAdvancesLast ==
  \/ curr_time_step' = curr_time_step
  \/ /\ curr_time_step' = curr_time_step + 1
     /\ Len(calls') = Len(calls) + 2
     /\ calls'[Len(calls')].fn = "subrtn.make_snapshot"

\* C21 (as the code has it): one ADR.step runs, in this order, the
\* collection of the particles with each particle's subroutine update right
\* after its own collection, discriminator training once, the discriminator
\* checkpoint in every iteration, the ensemble update when past warm-up, the
\* ADR snapshot, the subroutine's "best" snapshot with the same mean
\* return, and only then advances the counter by one.
C21_PhaseOrder ==
  [][PhasesInOrder' /\ UpdateAfterOwnCollection' /\ CounterAdvancesLast]_vars

\* an iteration past warm-up has ended, with every phase in its log
C21_Witness ==
  /\ adr_pc = "idle"
  /\ CallsOf("svpg.update") # <<>>
  /\ CallsOf("save_discriminator") # <<>>
  /\ Len(CallsOf("subrtn.update")) = NumParticles

\* C21 (as stated): the same order, where every subroutine update happens
\* after the rollout collection of all particles is complete.
C21_UpdatesAfterAllParticles ==
  [][PhasesInOrder' /\ UpdateAfterAllCollection' /\ CounterAdvancesLast]_vars

\* C22: the subroutine's update is called once per particle and iteration,
\* right after that particle's collection loop and before the next
\* particle is reset, with exactly that particle's randomized rollouts of
\* this iteration: num_trajs per adapter step, no reference rollout, no
\* rollout of another particle.
C22_UpdatePerParticle ==
  /\ Len(CallsOf("subrtn.update")) <= NumParticles
  /\ (adr_pc \in {"train", "training", "svpg", "snapshot"} \/ (adr_pc = "idle" /\ calls # <<>>))
       => Len(CallsOf("subrtn.update")) = NumParticles
  /\ \A k \in 1..Len(calls) :
       calls[k].fn = "subrtn.update" =>
         LET p == ParticleAt(k)
             steps == {m \in 1..Len(calls) : calls[m] = CallRec("svpg_env.step", p)}
         IN /\ k > 1
            /\ calls[k - 1] = CallRec("svpg_env.step", p)
            /\ k < Len(calls) =>
                 \/ calls[k + 1] = CallRec("svpg_env.reset", p + 1)
                 \/ p + 1 = NumParticles /\ calls[k + 1].fn = "reward_generator.train"
            /\ Len(calls[k].arg) = Cardinality(steps) * num_trajs
            /\ Cardinality(steps) = max_steps
            /\ \A r \in 1..Len(calls[k].arg) :
                 /\ calls[k].arg[r].cfg = "random"
                 /\ calls[k].arg[r].particle = p
                 /\ calls[k].arg[r].t = (r - 1) \div num_trajs

\* the last particle's update got two rollouts per step, after the update
\* of the particle before it
C22_Witness ==
  /\ num_trajs = 2
  /\ Len(CallsOf("subrtn.update")) = NumParticles
  /\ calls[Len(calls)].fn = "subrtn.update"

\* ------------------------------------------------------------ C23

\* C23: the discriminator's weights change only inside the one train call
\* of an outer iteration; get_reward takes no optimizer step, so every
\* step reward of one ADR.step is computed with the weights that ADR.step
\* began with.
C23_WeightsOnlyInTrain ==
  /\ \A w \in seen.used : w = seen.begin
  /\ adr_pc \in {"reset", "loop", "train"} => weights = seen.begin
  /\ (adr_pc \in {"training", "svpg", "snapshot"} \/ (adr_pc = "idle" /\ calls # <<>>))
       => weights = seen.begin + opt_steps

\* in a later iteration, rewards were computed with weights that an
\* earlier iteration had trained
C23_Witness ==
  /\ adr_pc = "loop"
  /\ seen.begin > 0
  /\ seen.used = {seen.begin}
  /\ weights = seen.begin

\* ------------------------------------------------------------ C25, C28

\* C25: step(a, i) and reset(i, ...) change the vector and the counter of
\* particle i only; in ADR.step, which takes the particles one after the
\* other, a particle's vector or counter is written only while that
\* particle is the one being processed.
C25_ParticleLocality ==
  [][\A j \in Particles :
       (inner_parameter_state'[j] # inner_parameter_state[j] \/ count'[j] # count[j]) =>
         /\ last'.op \in {"reset", "step"}
         /\ last'.i = j
         /\ adr_pc \in {"reset", "loop"}
         /\ cur_i = j]_vars

\* the last particle is being stepped and the first one still has the
\* counter its own loop ended with
C25_Witness ==
  /\ adr_pc = "loop"
  /\ cur_i = NumParticles - 1
  /\ cur_i > 0
  /\ count[cur_i] > 0
  /\ count[0] = max_steps
  /\ last.op = "step"

\* C28: for every particle the collection loop ends after exactly
\* max_steps adapter steps (ADR's constructor leaves max_steps at the
\* adapter's default), whatever the actions and the horizon; as each
\* particle is reset when its loop begins, its counter never exceeds
\* max_steps, and with horizon > max_steps no re-randomization happens.
LoopCounted ==
  /\ \A p \in Particles : count[p] <= max_steps
  /\ adr_pc = "loop" =>
       /\ Len(states) = count[cur_i]
       /\ done <=> count[cur_i] = max_steps
  /\ \A k \in 1..Len(ros) : ros[k].length = max_steps
  /\ horizon > max_steps => \A p \in Particles : rerand_at[p] = <<>>
  /\ horizon <= max_steps =>
       \A p \in Particles : \A k \in 1..Len(rerand_at[p]) : rerand_at[p][k] % horizon = 0

C28_LoopEndsAtMaxSteps ==
  [][/\ LoopCounted'
     /\ (adr_pc = "reset" /\ adr_pc' = "loop") => count'[cur_i] = 0
     /\ (adr_pc = "loop" /\ adr_pc' = "loop") =>
          /\ ~done
          /\ cur_i' = cur_i
          /\ count'[cur_i] = count[cur_i] + 1
     /\ (adr_pc = "loop" /\ adr_pc' # "loop") =>
          /\ done
          /\ count[cur_i] = max_steps
          /\ Len(states) = max_steps]_vars

\* a later iteration's loop has ended for a particle, with the default
\* max_steps, a horizon above it being impossible here, and every step counted
C28_Witness ==
  /\ adr_pc = "loop"
  /\ done
  /\ curr_time_step > 0
  /\ max_steps = DefaultMaxSteps
  /\ count[cur_i] = DefaultMaxSteps

\* ------------------------------------------------------------ C26, C27

\* C26: the rollout of a particle put into ros holds, at position t, the
\* value the adapter state had when the t-th step of the particle returned;
\* later steps do not change what was recorded.
C26_RecordedAsReturned ==
  \A k \in 1..Len(observations) :
    /\ Len(observations[k]) = Len(returned[ros[k].particle])
    /\ \A t \in 1..Len(observations[k]) :
         observations[k][t] = returned[ros[k].particle][t]

\* C27: the state an adapter step returns to ADR.step, and the state_dict
\* ADR.step derives from it, is the configuration that generated the
\* randomized rollouts of that step, also on the steps that re-randomize.
C27_ReturnedStateGenerated ==
  (adr_pc = "loop" /\ last.op = "step") =>
    /\ last.ret = sampled.moved
    /\ \A j \in 1..Len(sampled.rand) :
         state_dicts[cur_i][Len(state_dicts[cur_i])] = sampled.rand[j]

\* ------------------------------------------------------------ C24

AllDone(jobs) == \A j \in DOMAIN jobs : jobs[j] = "done"

\* every rollout of both batches of the running step has completed
BothBatchesDone ==
  /\ Len(rand_jobs) = num_trajs
  /\ Len(ref_jobs) = num_trajs
  /\ AllDone(rand_jobs)
  /\ AllDone(ref_jobs)

\* C24: whatever the order in which the workers run the rollouts, no reward
\* is computed and step does not return before every rollout of the
\* randomized and of the reference batch has completed; the rewards are
\* computed afterwards, one at a time, and the counter of the particle is
\* incremented only after all of them.
C24_StepBarrier ==
  [][/\ scored' # scored /\ scored' # 0 =>
          /\ BothBatchesDone
          /\ scored' = scored + 1
          /\ UNCHANGED <<rand_jobs, ref_jobs, count, last>>
     /\ st_pc' = "score" => BothBatchesDone'
     /\ (count' # count \/ last' # last) =>
          /\ BothBatchesDone
          /\ scored = num_trajs
          /\ last'.op = "step"
          /\ count' = [count EXCEPT ![last'.i] = @ + 1]]_vars

\* a step with two rollouts in each batch has returned
C24_Witness ==
  /\ st_pc = "idle"
  /\ last.op = "step"
  /\ ~last.raised
  /\ num_trajs > 1
  /\ count[last.i] > 0

\* ------------------------------------------------------------ C29

\* the rows of the desired trajectory have each been written once
AllRowsWritten(e) ==
  /\ Len(e.qpos_des) = e.max_steps
  /\ \A k \in 1..Len(e.qpos_des) : e.qpos_des[k].writes = 1

\* the callback has applied rows 0, 1, ... in order, each once, as written
AppliedInOrder(e) ==
  /\ Len(e.applied) <= e.max_steps
  /\ Len(e.applied) = (IF e.curr_step_rr = NoIndex THEN 0 ELSE e.curr_step_rr)
  /\ \A k \in 1..Len(e.applied) :
       /\ e.applied[k].row = k - 1
       /\ e.applied[k].row < e.max_steps
       /\ e.applied[k].val = e.qpos_des[k].val

\* C29: in an episode of WAMBallInCupRealEpisodic the control process is
\* started once, in the step that brings the step counter to max_steps and
\* not before, when every row of the desired trajectory has been written;
\* its callback applies rows 0 .. max_steps - 1 in order, each once, never
\* a row >= max_steps, and returns True on the first call at which its own
\* counter equals max_steps.
C29_ProcessAfterSampling ==
  [][/\ episodic'.starts <= 1
     /\ episodic'.starts = 1 <=> (episodic'.dc # "none" /\
                                  episodic'.curr_step = episodic'.max_steps)
     /\ episodic'.starts > episodic.starts =>
          /\ episodic.curr_step = episodic.max_steps - 1
          /\ AllRowsWritten(episodic')
     /\ episodic'.dc \in {"running", "completed"} => AllRowsWritten(episodic')
     /\ AppliedInOrder(episodic')
     /\ (episodic.dc = "running" /\ episodic.curr_step_rr < episodic.max_steps) =>
          episodic'.dc = "running"
     /\ (episodic.dc = "running" /\ episodic.curr_step_rr = episodic.max_steps) =>
          /\ episodic'.dc = "completed"
          /\ episodic'.completed_at = episodic.max_steps
          /\ Len(episodic'.applied) = episodic.max_steps
     /\ (wam_ret' # wam_ret /\ wam_ret'.done) =>
          /\ episodic.dc = "completed"
          /\ episodic.starts = 1]_vars

\* a second episode of three steps has been executed on the robot and its
\* last step has returned
C29_Witness ==
  /\ episodic.episodes = MaxEpisodes
  /\ episodic.max_steps > 2
  /\ episodic.dc = "completed"
  /\ ~episodic.waiting
  /\ wam_ret.op = "step"
  /\ wam_ret.done
  /\ Len(episodic.applied) = episodic.max_steps
  /\ \E k \in 1..Len(episodic.applied) : episodic.applied[k].val # episodic.applied[1].val

\* ------------------------------------------------------------ C30

\* the entry an observation labelled lab has to hold
IsLabelled(e, lab) ==
  \/ lab = "t" /\ e.part = "t"
  \/ lab = "ball_x" /\ e.part = "ball" /\ e.k = 1
  \/ lab = "ball_z" /\ e.part = "ball" /\ e.k = 3
  \/ lab = "cup_x" /\ e.part = "cup" /\ e.k = 1
  \/ lab = "cup_z" /\ e.part = "cup" /\ e.k = 3

\* C30: whatever observe_ball and observe_cup are, the observation reset
\* and step return has the layout of obs_space, [t], then the x and z of
\* the ball position, then the x and z of the cup position, and the state
\* has the dimension of state_space.
C30_ObservationLayout ==
  wam_ret.op \in {"reset", "step"} =>
    LET labels == ObsLabels(stepbased.observe_ball, stepbased.observe_cup)
    IN /\ Len(wam_ret.obs) = Len(labels)
       /\ \A k \in 1..Len(labels) : IsLabelled(wam_ret.obs[k], labels[k])
       /\ Len(stepbased.state) = StateSpaceDim(stepbased.num_dof, stepbased.observe_ball,
                                               stepbased.observe_cup)

====
